---- MODULE Spec2Model ----
(***************************************************************************)
(* Experiment context resolution and normalization.                        *)
(*                                                                         *)
(* The model covers the detail endpoint of the experiment viewer           *)
(* (GET /api/experiments/[id]) and the normalizeContext function it calls. *)
(*                                                                         *)
(* JavaScript values are encoded as records tagged by their typeof:        *)
(*   [t |-> "undefined"], [t |-> "null"], [t |-> "boolean", b |-> ...],     *)
(*   [t |-> "number", n |-> ...], [t |-> "string", s |-> <characters>],     *)
(*   [t |-> "object", f |-> <function from own keys to values>],           *)
(*   [t |-> "array", a |-> <sequence of values>].                          *)
(* A key whose value is undefined is an own key of the object in memory    *)
(* and is dropped by JSON serialization (ToJson).                          *)
(***************************************************************************)
EXTENDS Integers, Sequences, FiniteSets, TLC

VARIABLES
    raw,        \* normalizer run: the document handed to normalizeContext
    norm,       \* normalizer run: outcome of normalizeContext(raw)
    norm2,      \* normalizer run: outcome of normalizeContext(norm.result)
    npc,        \* normalizer run: "start", "once", "twice"
    id,         \* detail request: params.id
    dir,        \* detail request: the directory experiments/<id> on disk
    seen,       \* detail request: the handler's files and dirStat
    resp,       \* detail request: the response and the files read
    gpc,        \* detail request: "idle", "start", "done"
    req,        \* file request: the operation and its params
    disk,       \* file request: the file the request resolves to, on disk
    reply,      \* file request: the response and the filesystem calls made
    rpc,        \* file request: "idle", "start", "done"
    root,       \* list request: the experiments directory on disk
    scan,       \* list request: the handler's position, locals and response
    page,       \* page load: the state of the page that fetched the list
    tdir,       \* test list request: the test_results directory on disk
    tscan,      \* test list request: the handler's position and locals
    store,      \* concurrent requests: the directory of each id on disk
    slots       \* concurrent requests: position and locals of each request

normVars == <<raw, norm, norm2, npc>>
getVars == <<id, dir, seen, resp, gpc>>
reqVars == <<req, disk, reply, rpc>>
listVars == <<root, scan>>
pageVars == <<page>>
testsVars == <<tdir, tscan>>
concVars == <<store, slots>>
vars ==
    <<raw, norm, norm2, npc, id, dir, seen, resp, gpc, req, disk, reply, rpc, root,
      scan, page, tdir, tscan, store, slots>>

-----------------------------------------------------------------------------
(* JavaScript values *)

Undefined == [t |-> "undefined"]
Null == [t |-> "null"]
Bool(b) == [t |-> "boolean", b |-> b]
Num(n) == [t |-> "number", n |-> n]
Str(s) == [t |-> "string", s |-> s]
Obj(f) == [t |-> "object", f |-> f]
Arr(a) == [t |-> "array", a |-> a]

EmptyObject == Obj(<<>>)

\* ToBoolean: what `!x`, `x || y` and `if (x)` test.
Truthy(v) ==
    CASE v.t = "undefined" -> FALSE
      [] v.t = "null" -> FALSE
      [] v.t = "boolean" -> v.b
      [] v.t = "number" -> v.n # 0
      [] v.t = "string" -> v.s # <<>>
      [] OTHER -> TRUE

\* v.k for a v that is neither null nor undefined. The keys read by the
\* program are never "length" nor an index, so a primitive or an array has none.
Get(v, k) ==
    IF v.t = "object" /\ k \in DOMAIN v.f THEN v.f[k] ELSE Undefined

\* v?.k
OptGet(v, k) ==
    IF v.t \in {"undefined", "null"} THEN Undefined ELSE Get(v, k)

\* The own enumerable properties copied by {...v}: the own keys of an object,
\* the characters of a string under their indices; numbers, booleans, null and
\* undefined spread to nothing. No array is ever spread by the inputs of this
\* model.
Spread(v) ==
    CASE v.t = "object" -> v.f
      [] v.t = "string" ->
            [k \in {ToString(i - 1) : i \in DOMAIN v.s} |->
                Str(<<v.s[CHOOSE i \in DOMAIN v.s : ToString(i - 1) = k]>>)]
      [] OTHER -> <<>>

\* Own properties f with key k set to val.
WithKey(f, k, val) ==
    [x \in (DOMAIN f) \cup {k} |-> IF x = k THEN val ELSE f[x]]

\* a || b
Or(a, b) == IF Truthy(a) THEN a ELSE b

\* a ?? b
Coalesce(a, b) == IF a.t \in {"undefined", "null"} THEN b ELSE a

\* JSON.stringify followed by JSON.parse: keys whose value is undefined are
\* dropped, an undefined array element becomes null.
RECURSIVE ToJson(_)
ToJson(v) ==
    CASE v.t = "object" ->
            LET keep == {k \in DOMAIN v.f : v.f[k].t # "undefined"}
            IN  Obj([k \in keep |-> ToJson(v.f[k])])
      [] v.t = "array" ->
            Arr([i \in DOMAIN v.a |->
                    IF v.a[i].t = "undefined" THEN Null ELSE ToJson(v.a[i])])
      [] OTHER -> v

-----------------------------------------------------------------------------
(* normalizeContext *)

\* Variant of StateMissing: only an undefined state passes through.
StateMissing_undefinedOnly(context) == OptGet(context, "state").t = "undefined"

\* Line 15: `!context?.state`.
StateMissing(context) == ~Truthy(OptGet(context, "state"))

\* Line 18: `state.stage_outputs || {}`. When stage_outputs is truthy the local
\* stageOutputs IS the input's object: assignments to it write into the input.
InitialStageOutputs(state) == Or(Get(state, "stage_outputs"), EmptyObject)

StageOutputsAliased(state) == Truthy(Get(state, "stage_outputs"))

\* `stageOutputs.k = val` in strict mode (an ES module): a TypeError when
\* stageOutputs is a primitive, a new or replaced own property otherwise.
\* e is the execution so far: [threw, so].
\* (No array is ever a stage_outputs value in the inputs of this model.)
Assign(e, k, val) ==
    IF e.so.t = "object"
    THEN [threw |-> FALSE, so |-> Obj(WithKey(e.so.f, k, val))]
    ELSE [threw |-> TRUE, so |-> e.so]

\* Variant of SynthIdeaDevelopment: final_validation taken from research alone.
SynthIdeaDevelopment_researchOnly(state) ==
    Obj([k \in {"idea", "research", "final_validation", "legal_insights",
                "refinement_feedback"} |->
          CASE k = "idea" -> Get(state, "idea")
            [] k = "research" -> Get(state, "research")
            [] k = "final_validation" -> Get(state, "research")
            [] k = "legal_insights" ->
                  Coalesce(Get(state, "legal_insights"), Undefined)
            [] OTHER -> Get(state, "refinement_feedback")])

\* Variant of SynthIdeaDevelopment: research is preferred to research_final.
SynthIdeaDevelopment_researchFirst(state) ==
    Obj([k \in {"idea", "research", "final_validation", "legal_insights",
                "refinement_feedback"} |->
          CASE k = "idea" -> Get(state, "idea")
            [] k = "research" -> Get(state, "research")
            [] k = "final_validation" ->
                  Or(Get(state, "research"), Get(state, "research_final"))
            [] k = "legal_insights" ->
                  Coalesce(Get(state, "legal_insights"), Undefined)
            [] OTHER -> Get(state, "refinement_feedback")])

\* Lines 22-28.
SynthIdeaDevelopment(state) ==
    Obj([k \in {"idea", "research", "final_validation", "legal_insights",
                "refinement_feedback"} |->
          CASE k = "idea" -> Get(state, "idea")
            [] k = "research" -> Get(state, "research")
            [] k = "final_validation" ->
                  Or(Get(state, "research_final"), Get(state, "research"))
            [] k = "legal_insights" ->
                  Coalesce(Get(state, "legal_insights"), Undefined)
            [] OTHER -> Get(state, "refinement_feedback")])

\* Lines 33-38.
SynthPrototyping(state) ==
    Obj([k \in {"architecture", "design", "final_designs", "prototype"} |->
          Get(state, k)])

\* Variant of SynthPitch: the legacy pitch keeps its name.
SynthPitch_notRenamed(state) ==
    Obj([k \in {"marketing_strategies", "pitch"} |->
          IF k = "pitch" THEN Get(state, "pitch")
          ELSE Get(state, "marketing_strategies")])

\* Lines 43-46.
SynthPitch(state) ==
    Obj([k \in {"marketing_strategies", "pitch_deck"} |->
          IF k = "pitch_deck" THEN Get(state, "pitch")
          ELSE Get(state, "marketing_strategies")])

\* Variant of NeedsIdeaDevelopment: the existing entry is not looked at.
NeedsIdeaDevelopment_ignoreExisting(state, so) == Truthy(Get(state, "idea"))

\* Line 21.
NeedsIdeaDevelopment(state, so) ==
    ~Truthy(Get(so, "idea_development")) /\ Truthy(Get(state, "idea"))

\* Variant of NeedsPrototyping: any legacy field of the stage triggers it.
NeedsPrototyping_anyField(state, so) ==
    /\ ~Truthy(Get(so, "prototyping"))
    /\ \/ Truthy(Get(state, "prototype"))
       \/ Truthy(Get(state, "architecture"))
       \/ Truthy(Get(state, "design"))

\* Line 32.
NeedsPrototyping(state, so) ==
    ~Truthy(Get(so, "prototyping")) /\ Truthy(Get(state, "prototype"))

\* Line 42.
NeedsPitch(state, so) ==
    ~Truthy(Get(so, "pitch")) /\ Truthy(Get(state, "pitch"))

\* Lines 21-29.
BackfillIdeaDevelopment(state, e) ==
    IF ~e.threw /\ NeedsIdeaDevelopment(state, e.so)
    THEN Assign(e, "idea_development", SynthIdeaDevelopment(state))
    ELSE e

\* Lines 32-39.
BackfillPrototyping(state, e) ==
    IF ~e.threw /\ NeedsPrototyping(state, e.so)
    THEN Assign(e, "prototyping", SynthPrototyping(state))
    ELSE e

\* Lines 42-47.
BackfillPitch(state, e) ==
    IF ~e.threw /\ NeedsPitch(state, e.so)
    THEN Assign(e, "pitch", SynthPitch(state))
    ELSE e

\* Variant of ResultContext: the context is spread where the state should be.
ResultContext_spreadContext(context, state, so) ==
    Obj(WithKey(Spread(context), "state",
                Obj(WithKey(Spread(context), "stage_outputs", so))))

\* Lines 49-55:
\*   { ...context, state: { ...state, stage_outputs: stageOutputs } }.
ResultContext(context, state, so) ==
    Obj(WithKey(Spread(context), "state",
                Obj(WithKey(Spread(state), "stage_outputs", so))))

\* The input document after the call: its state.stage_outputs object carries
\* every assignment made through the alias; nothing else is written.
InputAfter(context, state, e) ==
    IF StageOutputsAliased(state) /\ ~e.threw
    THEN Obj(WithKey(context.f, "state",
                     Obj(WithKey(state.f, "stage_outputs", e.so))))
    ELSE context

\* Lines 14-56. The outcome is [threw, result, input]: whether a TypeError was
\* raised, the returned value, and the input document as the call leaves it.
normalizeContext(context) ==
    IF StateMissing(context)
    THEN [threw |-> FALSE, result |-> context, input |-> context]
    ELSE LET state == Get(context, "state")
             e0 == [threw |-> FALSE, so |-> InitialStageOutputs(state)]
             e1 == BackfillIdeaDevelopment(state, e0)
             e2 == BackfillPrototyping(state, e1)
             e3 == BackfillPitch(state, e2)
         IN  [threw |-> e3.threw,
              result |-> IF e3.threw THEN Undefined
                         ELSE ResultContext(context, state, e3.so),
              input |-> InputAfter(context, state, e3)]

-----------------------------------------------------------------------------
(* Input documents of the normalizer run *)

\* An opaque, non-empty payload object.
Payload(tag) == Obj([id |-> Str(tag)])

\* The object with the fields of f that are not undefined (an absent key).
MkObject(f) == Obj([k \in {x \in DOMAIN f : f[x].t # "undefined"} |-> f[k]])

IdeaKeys == {"idea", "research", "research_final", "legal_insights",
             "refinement_feedback"}
ProtoKeys == {"prototype", "architecture", "design", "final_designs"}
PitchKeys == {"pitch", "marketing_strategies"}
StageKeys == {"idea_development", "prototyping", "pitch"}

\* The legacy field that triggers the backfill of each stage.
Indicator(s) ==
    CASE s = "idea_development" -> "idea"
      [] s = "prototyping" -> "prototype"
      [] OTHER -> "pitch"

\* Legacy fields of the idea stage: every combination of absent, null, falsy
\* and payload values that the code tells apart.
IdeaFull ==
    { [k \in IdeaKeys |->
         CASE k = "idea" -> i
           [] k = "research" -> r
           [] k = "research_final" -> rf
           [] k = "legal_insights" -> lf[1]
           [] OTHER -> lf[2]] :
      i \in {Undefined, Null, Str(<<>>), Payload(<<"I">>)},
      r \in {Undefined, Payload(<<"R">>)},
      rf \in {Undefined, Num(0), Payload(<<"V">>)},
      lf \in {<<Undefined, Undefined>>, <<Null, Payload(<<"F">>)>>,
              <<Payload(<<"L">>), Undefined>>,
              <<Payload(<<"L">>), Payload(<<"F">>)>>} }

ProtoFull ==
    { [k \in ProtoKeys |->
         CASE k = "prototype" -> p
           [] k = "architecture" -> a
           [] k = "design" -> d[1]
           [] OTHER -> d[2]] :
      p \in {Undefined, Bool(FALSE), Payload(<<"P">>)},
      a \in {Undefined, Payload(<<"A">>)},
      d \in {<<Undefined, Undefined>>,
             <<Payload(<<"D">>), Arr(<<Payload(<<"F", "D">>)>>)>>} }

PitchFull ==
    { [k \in PitchKeys |-> IF k = "pitch" THEN pd ELSE m] :
      pd \in {Undefined, Null, Payload(<<"P", "D">>)},
      m \in {Undefined, Arr(<<Payload(<<"M">>)>>)} }

\* The legacy fields of a state: every combination over the three stages.
LegacyFields ==
    { g[1] @@ g[2] @@ g[3] : g \in IdeaFull \X ProtoFull \X PitchFull }

\* An already structured bundle of stage s; its content differs from anything
\* the backfill would synthesize.
Existing(s) ==
    CASE s = "idea_development" ->
            Obj([idea |-> Payload(<<"A", "I">>),
                 final_validation |-> Payload(<<"A", "V">>)])
      [] s = "prototyping" ->
            Obj([architecture |-> Payload(<<"A", "A">>),
                 prototype |-> Payload(<<"A", "P">>)])
      [] OTHER ->
            Obj([marketing_strategies |-> Arr(<<>>),
                 pitch_deck |-> Payload(<<"A", "P", "D">>)])

\* stage_outputs: absent, null, a primitive, or an object holding any subset of
\* the three entries, each a bundle or null.
StageOutputsValues ==
    {Undefined, Null, Str(<<"x">>)}
    \cup { MkObject([s \in StageKeys |->
                       CASE c[s] = "absent" -> Undefined
                         [] c[s] = "null" -> Null
                         [] OTHER -> Existing(s)]) :
           c \in [StageKeys -> {"absent", "null", "bundle"}] }

\* state: an object of legacy fields, stage_outputs and a run-wide field, or
\* a value that is no object at all.
StateValues ==
    {Undefined, Null, Str(<<>>), Str(<<"s">>), Num(1)}
    \cup { MkObject(lf @@ [stage_outputs |-> so,
                           current_stage |-> Str(<<"p", "i", "t", "c", "h">>)]) :
           lf \in LegacyFields, so \in StageOutputsValues }

\* The documents handed to normalizeContext: what JSON.parse can return, and
\* undefined (a results bundle without full_context is never passed, but the
\* function accepts it).
RawContexts ==
    {Undefined, Null, Str(<<"c">>), EmptyObject}
    \cup { MkObject([state |-> st, history_length |-> Num(3)]) :
           st \in StateValues }

-----------------------------------------------------------------------------
(* Strings. A string is the sequence of its characters. *)

\* String.prototype.startsWith
StartsWith(str, prefix) ==
    Len(str) >= Len(prefix) /\ SubSeq(str, 1, Len(prefix)) = prefix

\* String.prototype.endsWith
EndsWith(str, suffix) ==
    /\ Len(str) >= Len(suffix)
    /\ SubSeq(str, Len(str) - Len(suffix) + 1, Len(str)) = suffix

\* String.prototype.includes
StrIncludes(str, part) ==
    \E i \in 1..(Len(str) - Len(part) + 1) :
        SubSeq(str, i, i + Len(part) - 1) = part

\* Array.prototype.includes
ArrIncludes(arr, x) == \E i \in DOMAIN arr : arr[i] = x

\* An array of strings as a JavaScript value.
StrArr(arr) == Arr([i \in DOMAIN arr |-> Str(arr[i])])

\* Lines 66, 81.
CONTEXT_FINAL_JSON ==
    <<"c", "o", "n", "t", "e", "x", "t", "_", "f", "i", "n", "a", "l", ".",
      "j", "s", "o", "n">>

\* Lines 67, 86.
RESULTS_JSON ==
    <<"r", "e", "s", "u", "l", "t", "s", ".", "j", "s", "o", "n">>

\* Line 65.
STATISTICS_JSON ==
    <<"s", "t", "a", "t", "i", "s", "t", "i", "c", "s", ".", "j", "s", "o",
      "n">>

\* Line 64.
DOT_JSON ==
    <<".", "j", "s", "o", "n">>

\* Line 94.
CONTEXT_PREFIX ==
    <<"c", "o", "n", "t", "e", "x", "t", "_">>

\* Line 77.
DOT ==
    <<".">>

\* Line 71.
EXPERIMENT_PREFIX ==
    <<"e", "x", "p", "e", "r", "i", "m", "e", "n", "t", "_">>

\* Line 27 of the list endpoint.
STAGE_RUN_PREFIX == <<"s", "t", "a", "g", "e", "_", "r", "u", "n", "_">>

\* Line 71.
TYPE_FULL ==
    <<"f", "u", "l", "l">>

\* Line 71.
TYPE_STAGE_RUN ==
    <<"s", "t", "a", "g", "e", "_", "r", "u", "n">>

\* Line 106.
LOAD_FAILED ==
    <<"F", "a", "i", "l", "e", "d", " ", "t", "o", " ", "l", "o", "a", "d",
      " ", "e", "x", "p", "e", "r", "i", "m", "e", "n", "t">>

-----------------------------------------------------------------------------
(* GET /api/experiments/[id] *)

\* A file's content: unreadable (readFile rejects: a directory, an I/O error),
\* text that is no JSON (JSON.parse throws), or the JSON value it parses to.
Unreadable == [kind |-> "unreadable", doc |-> Undefined]
Garbage == [kind |-> "garbage", doc |-> Undefined]
Json(doc) == [kind |-> "json", doc |-> doc]

\* Variant of HasFinalContext: only the first name of the listing is looked at.
HasFinalContext_firstOnly(files) ==
    files # <<>> /\ files[1] = CONTEXT_FINAL_JSON

\* Lines 64-67.
ContextFilesOf(files) == SelectSeq(files, LAMBDA f : EndsWith(f, DOT_JSON))
HasStatistics(files) == ArrIncludes(files, STATISTICS_JSON)
HasFinalContext(files) == ArrIncludes(files, CONTEXT_FINAL_JSON)
HasResults(files) == ArrIncludes(files, RESULTS_JSON)

\* Line 71.
DetailType(expId) ==
    IF StartsWith(expId, EXPERIMENT_PREFIX) THEN TYPE_FULL ELSE TYPE_STAGE_RUN

\* Lines 69-78.
ExperimentSummary(expId, d) ==
    [k \in {"id", "type", "hasStatistics", "hasCompleteContext", "hasResults",
            "contextFiles", "timestamp", "subfolders"} |->
       CASE k = "id" -> Str(expId)
         [] k = "type" -> Str(DetailType(expId))
         [] k = "hasStatistics" -> Bool(HasStatistics(d.listing))
         [] k = "hasCompleteContext" -> Bool(HasFinalContext(d.listing))
         [] k = "hasResults" -> Bool(HasResults(d.listing))
         [] k = "contextFiles" -> StrArr(ContextFilesOf(d.listing))
         [] k = "timestamp" -> Str(d.mtime)
         [] OTHER ->
              StrArr(SelectSeq(d.listing, LAMBDA f : ~StrIncludes(f, DOT)))]

\* Line 94: Array.prototype.find, the first element that passes, in array
\* order; found is FALSE where find returns undefined.
FirstContext(files) ==
    LET hits == SelectSeq(ContextFilesOf(files),
                          LAMBDA f : StartsWith(f, CONTEXT_PREFIX))
    IN  IF hits = <<>> THEN [found |-> FALSE, value |-> <<>>]
        ELSE [found |-> TRUE, value |-> Head(hits)]

\* Variant of SourceOf: the results bundle is looked at before the final
\* context.
SourceOf_resultsFirst(files) ==
    IF HasResults(files) THEN "results"
    ELSE IF HasFinalContext(files) THEN "final"
    ELSE IF FirstContext(files).found THEN "stage"
    ELSE "none"

\* Lines 80, 85, 93-95: the branch taken.
SourceOf(files) ==
    IF HasFinalContext(files) THEN "final"
    ELSE IF HasResults(files) THEN "results"
    ELSE IF FirstContext(files).found THEN "stage"
    ELSE "none"

\* Lines 104-107.
Failed(reads) ==
    [status |-> 500, body |-> Obj([error |-> Str(LOAD_FAILED)]),
     reads |-> reads]

\* json(body): status 200 and the serialized body.
Ok(fields, reads) ==
    [status |-> 200, body |-> ToJson(Obj(fields)), reads |-> reads]

\* Variant of ContextBranch: a document that cannot be used is left out and
\* the summary is answered.
ContextBranch_summaryOnFailure(expId, d, name) ==
    LET file == d.content[name]
        n == normalizeContext(file.doc)
    IN  IF file.kind # "json" \/ n.threw
        THEN Ok(ExperimentSummary(expId, d), <<name>>)
        ELSE Ok(WithKey(ExperimentSummary(expId, d), "context", n.result),
                <<name>>)

\* Lines 81-84 and 96-99: read one context document, normalize it, attach it.
ContextBranch(expId, d, name) ==
    LET file == d.content[name]
        n == normalizeContext(file.doc)
    IN  IF file.kind # "json" \/ n.threw THEN Failed(<<name>>)
        ELSE Ok(WithKey(ExperimentSummary(expId, d), "context", n.result),
                <<name>>)

\* Lines 86-92: read the bundle, normalize its full_context when it has one.
\* Reading full_context of a bundle that parsed to null is a TypeError.
ResultsBranch(expId, d) ==
    LET file == d.content[RESULTS_JSON]
        results == file.doc
        n == normalizeContext(Get(results, "full_context"))
    IN  IF file.kind # "json" \/ results.t = "null" THEN Failed(<<RESULTS_JSON>>)
        ELSE IF ~Truthy(Get(results, "full_context"))
        THEN Ok(WithKey(ExperimentSummary(expId, d), "results", results),
                <<RESULTS_JSON>>)
        ELSE IF n.threw THEN Failed(<<RESULTS_JSON>>)
        ELSE Ok(WithKey(ExperimentSummary(expId, d), "results",
                        Obj(WithKey(results.f, "full_context", n.result))),
                <<RESULTS_JSON>>)

\* GET_experiment with the summary-only case answered as a failure.
GET_experiment_noneIsError(expId, d) ==
    IF ~d.exists THEN Failed(<<>>)
    ELSE CASE SourceOf(d.listing) = "final" ->
                ContextBranch(expId, d, CONTEXT_FINAL_JSON)
           [] SourceOf(d.listing) = "results" -> ResultsBranch(expId, d)
           [] SourceOf(d.listing) = "stage" ->
                ContextBranch(expId, d, FirstContext(d.listing).value)
           [] OTHER -> Failed(<<>>)

\* Lines 58-108. readdir of a missing directory rejects and the handler
\* answers 500; otherwise the branch chosen by SourceOf answers.
GET_experiment(expId, d) ==
    IF ~d.exists THEN Failed(<<>>)
    ELSE CASE SourceOf(d.listing) = "final" ->
                ContextBranch(expId, d, CONTEXT_FINAL_JSON)
           [] SourceOf(d.listing) = "results" -> ResultsBranch(expId, d)
           [] SourceOf(d.listing) = "stage" ->
                ContextBranch(expId, d, FirstContext(d.listing).value)
           [] OTHER -> Ok(ExperimentSummary(expId, d), <<>>)

-----------------------------------------------------------------------------
(* Directories of the detail request *)

CONTEXT_IDEA_JSON ==
    <<"c", "o", "n", "t", "e", "x", "t", "_", "i", "d", "e", "a", "_", "d",
      "e", "v", "e", "l", "o", "p", "m", "e", "n", "t", ".", "j", "s", "o",
      "n">>

CONTEXT_PITCH_JSON ==
    <<"c", "o", "n", "t", "e", "x", "t", "_", "p", "i", "t", "c", "h", ".",
      "j", "s", "o", "n">>

DESIGNS_DIR ==
    <<"d", "e", "s", "i", "g", "n", "s">>

ID_FULL ==
    <<"e", "x", "p", "e", "r", "i", "m", "e", "n", "t", "_", "2", "0", "2",
      "4", "0", "1", "0", "1", "_", "0", "0", "0", "0", "0", "0">>

ID_STAGE_RUN ==
    <<"s", "t", "a", "g", "e", "_", "r", "u", "n", "_", "p", "i", "t", "c",
      "h", "_", "2", "0", "2", "4", "0", "1", "0", "2", "_", "0", "0", "0",
      "0", "0", "0">>

\* The largest number of entries of an experiment directory.
MaxFiles == 4

FileNames ==
    {CONTEXT_FINAL_JSON, RESULTS_JSON, STATISTICS_JSON, CONTEXT_IDEA_JSON,
     CONTEXT_PITCH_JSON, DESIGNS_DIR}

\* readdir promises no order: a listing is any arrangement of the entries.
Listings ==
    UNION { { l \in [1..n -> FileNames] :
                \A i, j \in 1..n : i # j => l[i] # l[j] } : n \in 0..MaxFiles }

\* A legacy document, a structured one, and one whose stage_outputs is a string.
DocLegacy ==
    MkObject([state |-> MkObject([idea |-> Payload(<<"I">>),
                                  research_final |-> Payload(<<"V">>),
                                  prototype |-> Payload(<<"P">>)]),
              history_length |-> Num(3)])

DocStructured ==
    MkObject([state |-> MkObject([stage_outputs |->
                                    Obj([s \in StageKeys |-> Existing(s)])]),
              history_length |-> Num(3)])

DocBadStageOutputs ==
    MkObject([state |-> MkObject([idea |-> Payload(<<"I">>),
                                  stage_outputs |-> Str(<<"x">>)]),
              history_length |-> Num(3)])

\* The snapshot written after one stage.
DocStage(tag) ==
    MkObject([state |-> MkObject([idea |-> Payload(<<"I">>),
                                  current_stage |-> Str(tag)]),
              history_length |-> Num(1)])

\* The context embedded in a results bundle; it differs from every other
\* document of the directory.
DocEmbedded ==
    MkObject([state |-> MkObject([pitch |-> Payload(<<"E">>)]),
              history_length |-> Num(2)])

Bundle(fullContext) ==
    MkObject([stage |-> Str(<<"p", "i", "t", "c", "h">>),
              success |-> Bool(TRUE),
              full_context |-> fullContext])

FinalContents ==
    {Unreadable, Garbage, Json(DocLegacy), Json(DocStructured),
     Json(DocBadStageOutputs)}

ResultsContents ==
    {Garbage, Json(Null), Json(Bundle(DocEmbedded)), Json(Bundle(Undefined)),
     Json(Bundle(DocBadStageOutputs))}

StageContents(tag) == {Garbage, Json(DocStage(tag))}

\* What each file name may hold.
ContentProfiles ==
    { [x \in FileNames |->
         CASE x = CONTEXT_FINAL_JSON -> a
           [] x = RESULTS_JSON -> b
           [] x = CONTEXT_IDEA_JSON -> c
           [] x = CONTEXT_PITCH_JSON -> e
           [] x = STATISTICS_JSON -> Json(EmptyObject)
           [] OTHER -> Unreadable] :
      a \in FinalContents, b \in ResultsContents,
      c \in StageContents(<<"i">>), e \in StageContents(<<"p">>) }

Range(seq) == {seq[i] : i \in DOMAIN seq}

NoDirectory ==
    [exists |-> FALSE, listing |-> <<>>, content |-> <<>>, mtime |-> <<>>]

Directories ==
    {NoDirectory}
    \cup { [exists |-> TRUE, listing |-> l,
            content |-> [x \in Range(l) |-> prof[x]], mtime |-> <<"T">>] :
           l \in Listings, prof \in ContentProfiles }

\* A directory named under neither convention.
ID_UNPREFIXED == <<"T", "e", "s", "t", "_", "r", "u", "n">>

Ids == {ID_FULL, ID_STAGE_RUN, ID_UNPREFIXED}

-----------------------------------------------------------------------------
(* GET /api/experiments/<id>/designs/<filename>
   (routes/api/experiments/[id]/designs/[filename]/+server.ts) *)

UpperCaseLetters ==
    <<"A", "B", "C", "D", "E", "F", "G", "H", "I", "J", "K", "L", "M", "N",
      "O", "P", "Q", "R", "S", "T", "U", "V", "W", "X", "Y", "Z">>

LowerCaseLetters ==
    <<"a", "b", "c", "d", "e", "f", "g", "h", "i", "j", "k", "l", "m", "n",
      "o", "p", "q", "r", "s", "t", "u", "v", "w", "x", "y", "z">>

\* String.prototype.toLowerCase
ToLowerCase(str) ==
    [i \in DOMAIN str |->
        IF \E k \in DOMAIN UpperCaseLetters : UpperCaseLetters[k] = str[i]
        THEN LowerCaseLetters[CHOOSE k \in DOMAIN UpperCaseLetters :
                                 UpperCaseLetters[k] = str[i]]
        ELSE str[i]]

\* String.prototype.split with a one-character separator: the pieces between
\* the separators, one piece (the whole string) where there is none.
RECURSIVE Split(_, _)
Split(str, sep) ==
    IF \A i \in DOMAIN str : str[i] # sep THEN <<str>>
    ELSE LET k == CHOOSE i \in DOMAIN str :
                     str[i] = sep /\ \A j \in 1..(i - 1) : str[j] # sep
         IN  <<SubSeq(str, 1, k - 1)>>
             \o Split(SubSeq(str, k + 1, Len(str)), sep)

\* Array.prototype.pop: the last element.
Pop(arr) == arr[Len(arr)]

\* Line 16.
DOTDOT == <<".", ".">>

\* Line 20.
DESIGNS == <<"d", "e", "s", "i", "g", "n", "s">>

\* Lines 30-34.
EXT_JPG == <<"j", "p", "g">>
EXT_JPEG == <<"j", "p", "e", "g">>
EXT_GIF == <<"g", "i", "f">>
EXT_WEBP == <<"w", "e", "b", "p">>

\* Lines 28-34.
IMAGE_PNG == <<"i", "m", "a", "g", "e", "/", "p", "n", "g">>
IMAGE_JPEG == <<"i", "m", "a", "g", "e", "/", "j", "p", "e", "g">>
IMAGE_GIF == <<"i", "m", "a", "g", "e", "/", "g", "i", "f">>
IMAGE_WEBP == <<"i", "m", "a", "g", "e", "/", "w", "e", "b", "p">>

\* Line 40.
CACHE_CONTROL ==
    <<"p", "u", "b", "l", "i", "c", ",", " ", "m", "a", "x", "-", "a", "g",
      "e", "=", "3", "6", "0", "0">>

\* Lines 12, 17, 44.
MISSING_PARAMS ==
    <<"M", "i", "s", "s", "i", "n", "g", " ", "e", "x", "p", "e", "r", "i",
      "m", "e", "n", "t", " ", "I", "D", " ", "o", "r", " ", "f", "i", "l",
      "e", "n", "a", "m", "e">>
INVALID_PATH == <<"I", "n", "v", "a", "l", "i", "d", " ", "p", "a", "t", "h">>
IMAGE_NOT_FOUND ==
    <<"I", "m", "a", "g", "e", " ", "n", "o", "t", " ", "f", "o", "u", "n",
      "d">>

\* The traversal test with the experiment id left unchecked.
InvalidPath_filenameOnly(expId, filename) == StrIncludes(filename, DOTDOT)

\* Line 16.
InvalidPath(expId, filename) ==
    StrIncludes(expId, DOTDOT) \/ StrIncludes(filename, DOTDOT)

\* The extension taken from the name as it is spelled.
Extension_caseSensitive(filename) == Pop(Split(filename, "."))

\* Line 27.
Extension(filename) == Pop(Split(ToLowerCase(filename), "."))

\* Lines 28-35.
ContentType(ext) ==
    IF ext = EXT_JPG \/ ext = EXT_JPEG THEN IMAGE_JPEG
    ELSE IF ext = EXT_GIF THEN IMAGE_GIF
    ELSE IF ext = EXT_WEBP THEN IMAGE_WEBP
    ELSE IMAGE_PNG

\* Line 20: the path handed to access and readFile, as its segments under
\* the experiments directory.
ImagePath(expId, filename) == <<expId, DESIGNS, filename>>

\* throw error(status, message)
HttpError(status, message, ops) ==
    [status |-> status, message |-> message, ops |-> ops]

\* Lines 9-23: the checks of the parameters, and await access(imagePath).
\* file is the state of the entry at the image path: "missing" (access
\* rejects), "unreadable" (access resolves, readFile rejects) or the bytes of
\* the image. ops are the filesystem calls made, in order.
DesignAccessDone(expId, filename, file) ==
    LET access == [op |-> "access", path |-> ImagePath(expId, filename)]
    IN  IF expId = <<>> \/ filename = <<>>
        THEN [pc |-> "done", reply |-> HttpError(400, MISSING_PARAMS, <<>>)]
        ELSE IF InvalidPath(expId, filename)
        THEN [pc |-> "done", reply |-> HttpError(400, INVALID_PATH, <<>>)]
        ELSE IF file = "missing"
        THEN [pc |-> "done",
              reply |-> HttpError(404, IMAGE_NOT_FOUND, <<access>>)]
        ELSE [pc |-> "read", reply |-> [status |-> 0, ops |-> <<access>>]]

\* Lines 24-45: await readFile(imagePath), and the answer.
DesignReadDone(expId, filename, file, ops) ==
    LET readFile == [op |-> "readFile", path |-> ImagePath(expId, filename)]
    IN  IF file \in {"missing", "unreadable"}
        THEN HttpError(404, IMAGE_NOT_FOUND, Append(ops, readFile))
        ELSE [status |-> 200,
              body |-> file,
              headers |-> [ContentType |-> ContentType(Extension(filename)),
                           CacheControl |-> CACHE_CONTROL],
              ops |-> Append(ops, readFile)]

\* Requests and files of the design endpoint.
NAME_TRAVERSAL ==
    <<".", ".", "/", ".", ".", "/", "s", "e", "c", "r", "e", "t">>
NAME_PARENT == <<".", ".">>

\* File names asked for: mockup.png, photo.JPG, scan.Jpeg, anim.gif,
\* hero.WEBP, logo.svg, v1.final.gif, mockup, jpg, webp, draft. (a trailing
\* dot), a..png, and the two traversals.
DesignFileNames ==
    {<<"m", "o", "c", "k", "u", "p", ".", "p", "n", "g">>,
     <<"p", "h", "o", "t", "o", ".", "J", "P", "G">>,
     <<"s", "c", "a", "n", ".", "J", "p", "e", "g">>,
     <<"a", "n", "i", "m", ".", "g", "i", "f">>,
     <<"h", "e", "r", "o", ".", "W", "E", "B", "P">>,
     <<"l", "o", "g", "o", ".", "s", "v", "g">>,
     <<"v", "1", ".", "f", "i", "n", "a", "l", ".", "g", "i", "f">>,
     <<"m", "o", "c", "k", "u", "p">>,
     <<"j", "p", "g">>,
     <<"w", "e", "b", "p">>,
     <<"d", "r", "a", "f", "t", ".">>,
     <<"a", ".", ".", "p", "n", "g">>,
     NAME_TRAVERSAL, NAME_PARENT}

\* Experiment ids asked for; the last is ../other.
DesignIds ==
    {ID_FULL, ID_STAGE_RUN, NAME_PARENT,
     <<".", ".", "/", "o", "t", "h", "e", "r">>}

IMAGE_BYTES == "bytes"

DesignFiles == {"missing", "unreadable", IMAGE_BYTES}

-----------------------------------------------------------------------------
(* The handlers that read one JSON file:
   GET /api/experiments/<id>/statistics
   (routes/api/experiments/[id]/statistics/+server.ts),
   GET /api/experiments/<id>/context/<stage>
   (routes/api/experiments/[id]/context/[stage]/+server.ts),
   GET /api/tests/<id> (routes/api/tests/[id], second handler of
   routes/api/tests/+server.ts) *)

\* A file that is not there: readFile rejects with ENOENT.
Missing == [kind |-> "missing", doc |-> Undefined]

\* statistics/+server.ts line 15.
STATISTICS_NOT_FOUND ==
    <<"S", "t", "a", "t", "i", "s", "t", "i", "c", "s", " ", "n", "o", "t",
      " ", "f", "o", "u", "n", "d">>

\* context/[stage]/+server.ts line 15.
CONTEXT_LOAD_FAILED ==
    <<"F", "a", "i", "l", "e", "d", " ", "t", "o", " ", "l", "o", "a", "d",
      " ", "c", "o", "n", "t", "e", "x", "t">>

\* tests/+server.ts line 63.
TEST_LOAD_FAILED ==
    <<"F", "a", "i", "l", "e", "d", " ", "t", "o", " ", "l", "o", "a", "d",
      " ", "t", "e", "s", "t", " ", "r", "e", "s", "u", "l", "t">>

\* tests/+server.ts line 58.
TEST_RESULTS == <<"t", "e", "s", "t", "_", "r", "e", "s", "u", "l", "t", "s">>

\* tests/+server.ts line 45: 'Failed to load test results'
TESTS_FAILED ==
    <<"F", "a", "i", "l", "e", "d", " ", "t", "o", " ", "l", "o", "a", "d",
      " ", "t", "e", "s", "t", " ", "r", "e", "s", "u", "l", "t", "s">>

\* json({ error: message }, { status })
JsonError(status, message, ops) ==
    [status |-> status, body |-> Obj([error |-> Str(message)]), ops |-> ops]

\* json(value)
JsonOk(value, ops) == [status |-> 200, body |-> ToJson(value), ops |-> ops]

\* statistics/+server.ts lines 8-17.
GET_statistics(expId, file) ==
    LET ops == <<[op |-> "readFile", path |-> <<expId, STATISTICS_JSON>>]>>
    IN  IF file.kind = "json" THEN JsonOk(file.doc, ops)
        ELSE JsonError(404, STATISTICS_NOT_FOUND, ops)

\* context/[stage]/+server.ts line 10: `context_${params.stage}.json`
ContextFileName(stage) == CONTEXT_PREFIX \o stage \o DOT_JSON

\* context/[stage]/+server.ts lines 8-17.
GET_context(expId, stage, file) ==
    LET ops == <<[op |-> "readFile",
                  path |-> <<expId, ContextFileName(stage)>>]>>
    IN  IF file.kind = "json" THEN JsonOk(file.doc, ops)
        ELSE JsonError(500, CONTEXT_LOAD_FAILED, ops)

\* tests/+server.ts line 58: `${params.id}.json`
TestFileName(testId) == testId \o DOT_JSON

\* tests/+server.ts line 60: { id: params.id, ...JSON.parse(testData) }. The
\* keys of the document are written after id, so a document's own id stays.
TestRecord(testId, data) ==
    [k \in {"id"} \cup DOMAIN Spread(data) |->
        IF k \in DOMAIN Spread(data) THEN Spread(data)[k] ELSE Str(testId)]

\* tests/+server.ts lines 56-65.
GET_test(testId, file) ==
    LET ops == <<[op |-> "readFile",
                  path |-> <<TEST_RESULTS, TestFileName(testId)>>]>>
    IN  IF file.kind = "json"
        THEN JsonOk(Obj(TestRecord(testId, file.doc)), ops)
        ELSE JsonError(500, TEST_LOAD_FAILED, ops)

\* Requests and files of the three handlers.
Stages ==
    {<<"i", "d", "e", "a">>, <<"p", "i", "t", "c", "h">>,
     <<"f", "i", "n", "a", "l">>}

\* idea_test_001 and pitch_test_002.
TestIds ==
    {<<"i", "d", "e", "a", "_", "t", "e", "s", "t", "_", "0", "0", "1">>,
     <<"p", "i", "t", "c", "h", "_", "t", "e", "s", "t", "_", "0", "0", "2">>}

\* statistics.json documents.
StatsDocs ==
    {MkObject([total_cost |-> Num(3), total_tokens |-> Num(1200)]),
     EmptyObject, Null}

\* Test result documents: with and without an id of their own, equal to the
\* file name or not.
TestDocPlain ==
    MkObject([test_name |-> Str(<<"i", "d", "e", "a", "t", "i", "o", "n">>),
              success |-> Bool(TRUE), execution_time_ms |-> Num(42)])
TestDocOwnId(testId) ==
    MkObject([id |-> Str(testId),
              test_name |-> Str(<<"i", "d", "e", "a", "t", "i", "o", "n">>),
              success |-> Bool(FALSE), error |-> Null])

TestDocs ==
    {TestDocPlain, EmptyObject, Null}
    \cup {TestDocOwnId(t) : t \in TestIds}

\* Beside the ids and stages above, the id ../other (sent as ..%2Fother) and
\* the stage /../../other are asked for.
FileRequests ==
    LET outside == <<".", ".", "/", "o", "t", "h", "e", "r">>
    IN  [op : {"statistics"}, id : Ids \cup {outside}]
        \cup [op : {"context"}, id : Ids \cup {outside},
              stage : Stages \cup {<<"/", ".", ".", "/">> \o outside}]
        \cup [op : {"test"}, id : TestIds \cup {outside}]

\* The states of the file a request resolves to.
FilesOf(r) ==
    {Missing, Unreadable, Garbage}
    \cup CASE r.op = "statistics" -> {Json(d) : d \in StatsDocs}
           [] r.op = "context" ->
                {Json(DocLegacy), Json(DocStructured), Json(DocStage(r.stage))}
           [] OTHER -> {Json(d) : d \in TestDocs}

-----------------------------------------------------------------------------
(* GET /api/experiments (routes/api/experiments/+server.ts) *)

\* Line 42.
LIST_FAILED ==
    <<"F", "a", "i", "l", "e", "d", " ", "t", "o", " ", "l", "o", "a", "d",
      " ", "e", "x", "p", "e", "r", "i", "m", "e", "n", "t", "s">>

\* String.prototype.localeCompare orders by collation, not by code unit:
\* the underscore sorts before the digits, the digits before the letters,
\* and a letter's case counts only between strings that are otherwise equal,
\* the lower-case letter first.
CollationOrder ==
    <<"_", "0", "1", "2", "3", "4", "5", "6", "7", "8", "9", "a", "b", "c",
      "d", "e", "f", "g", "h", "i", "j", "k", "l", "m", "n", "o", "p", "q",
      "r", "s", "t", "u", "v", "w", "x", "y", "z">>

\* The primary weight of a character: its place in the collation order,
\* whatever its case.
PrimaryWeight(c) ==
    CHOOSE i \in DOMAIN CollationOrder :
        CollationOrder[i] = ToLowerCase(<<c>>)[1]

IsUpperCase(c) == \E k \in DOMAIN UpperCaseLetters : UpperCaseLetters[k] = c

\* a.localeCompare(b): negative, zero or positive.
LocaleCompare(a, b) ==
    LET pa == [i \in DOMAIN a |-> PrimaryWeight(a[i])]
        pb == [i \in DOMAIN b |-> PrimaryWeight(b[i])]
        common == IF Len(a) < Len(b) THEN Len(a) ELSE Len(b)
        diffs == {i \in 1..common : pa[i] # pb[i]}
        cases == {i \in 1..common : a[i] # b[i]}
    IN  IF diffs # {}
        THEN LET k == CHOOSE i \in diffs : \A j \in diffs : i <= j
             IN  IF pa[k] < pb[k] THEN -1 ELSE 1
        ELSE IF Len(a) # Len(b) THEN (IF Len(a) < Len(b) THEN -1 ELSE 1)
        ELSE IF cases = {} THEN 0
        ELSE LET k == CHOOSE i \in cases : \A j \in cases : i <= j
             IN  IF IsUpperCase(b[k]) THEN -1 ELSE 1

\* The comparator with its arguments the other way round.
CompareExperiments_ascending(a, b) == LocaleCompare(a.id, b.id)

\* Line 37: (a, b) => b.id.localeCompare(a.id)
CompareExperiments(a, b) == LocaleCompare(b.id, a.id)

\* Line 37: Array.prototype.sort, a stable sort by the comparator.
RECURSIVE SortExperiments(_)
SortExperiments(arr) ==
    IF arr = <<>> THEN <<>>
    ELSE LET x == Head(arr)
             rest == SortExperiments(Tail(arr))
             after == {j \in DOMAIN rest : CompareExperiments(x, rest[j]) <= 0}
             k == IF after = {} THEN Len(rest) + 1
                  ELSE CHOOSE j \in after : \A i \in after : j <= i
         IN  SubSeq(rest, 1, k - 1) \o <<x>> \o SubSeq(rest, k, Len(rest))

\* Line 27.
ListType(name) ==
    IF StartsWith(name, STAGE_RUN_PREFIX) THEN TYPE_STAGE_RUN ELSE TYPE_FULL

\* Lines 25-33: the entry pushed for a directory, as kept in memory (id is
\* the directory name, files its listing, mtime its modification time).
ListEntry(name, files, mtime) == [id |-> name, files |-> files, mtime |-> mtime]

\* Lines 25-33: the fields of an entry of the answer.
ListSummary(e) ==
    Obj([k \in {"id", "type", "hasStatistics", "hasCompleteContext",
                "hasResults", "contextFiles", "timestamp"} |->
           CASE k = "id" -> Str(e.id)
             [] k = "type" -> Str(ListType(e.id))
             [] k = "hasStatistics" -> Bool(HasStatistics(e.files))
             [] k = "hasCompleteContext" -> Bool(HasFinalContext(e.files))
             [] k = "hasResults" -> Bool(HasResults(e.files))
             [] k = "contextFiles" -> StrArr(ContextFilesOf(e.files))
             [] OTHER -> Str(e.mtime)])

\* Line 14: entry.isDirectory() && !entry.name.startsWith('.')
IsExperimentEntry(entry) == entry.isDir /\ ~StartsWith(entry.name, DOT)

\* Lines 13-14: the first entry at or after position i that the loop scans,
\* one past the end where there is none.
NextExperiment(entries, i) ==
    LET later == {j \in i..Len(entries) : IsExperimentEntry(entries[j])}
    IN  IF later = {} THEN Len(entries) + 1
        ELSE CHOOSE j \in later : \A k \in later : j <= k

\* Lines 41-42: the one error response of the handler.
ListFailed == [status |-> 500, body |-> Obj([error |-> Str(LIST_FAILED)])]

\* Lines 37-39: sort and answer.
ListOk(experiments) ==
    LET sorted == SortExperiments(experiments)
    IN  [status |-> 200,
         body |-> Arr([i \in DOMAIN sorted |-> ListSummary(sorted[i])])]

\* The state of a scan: pc is "start" (readdir of the experiments directory
\* pending), "readdir" (readdir of entries[i] pending), "stat" (stat of
\* entries[i] pending) or "done".
NoListResponse == [status |-> 0, body |-> Undefined]

ScanStart ==
    [pc |-> "start", entries |-> <<>>, i |-> 0, files |-> <<>>,
     experiments |-> <<>>, response |-> NoListResponse]

ScanDone(s, response) == [s EXCEPT !.pc = "done", !.response = response]

\* Lines 13-39: the loop runs on to the next directory it has to read, or to
\* the sort and the answer when there is none left.
ScanFrom(s, i) ==
    LET next == NextExperiment(s.entries, i)
    IN  IF next > Len(s.entries) THEN ScanDone(s, ListOk(s.experiments))
        ELSE [s EXCEPT !.pc = "readdir", !.i = next, !.files = <<>>]

\* A failed readdir or stat of one directory is skipped and the scan goes on.
EntryFailed_skip(s) == ScanFrom(s, s.i + 1)

\* Lines 40-43: a rejected readdir or stat leaves the loop for the catch.
EntryFailed(s) == ScanDone(s, ListFailed)

\* Line 10: readdir(EXPERIMENTS_DIR, { withFileTypes: true }) over the
\* directory r.
RootRead(s, r) ==
    IF ~r.exists THEN ScanDone(s, ListFailed)
    ELSE ScanFrom([s EXCEPT !.entries =
                      [j \in DOMAIN r.order |->
                          [name |-> r.order[j],
                           isDir |-> r.entry[r.order[j]].isDir]]], 1)

\* Line 16: readdir(expDir).
EntryRead(s, r) ==
    LET name == s.entries[s.i].name
    IN  IF name \notin DOMAIN r.entry THEN EntryFailed(s)
        ELSE [s EXCEPT !.pc = "stat", !.files = r.entry[name].files]

\* Lines 23-33: stat(expDir) and the push.
EntryStat(s, r) ==
    LET name == s.entries[s.i].name
    IN  IF name \notin DOMAIN r.entry THEN EntryFailed(s)
        ELSE ScanFrom([s EXCEPT !.experiments =
                          Append(@, ListEntry(name, s.files,
                                              r.entry[name].mtime))],
                      s.i + 1)

\* The experiments directory of the list request.
ID_FULL_LATER ==
    <<"e", "x", "p", "e", "r", "i", "m", "e", "n", "t", "_", "2", "0", "2",
      "4", "0", "1", "0", "3", "_", "0", "0", "0", "0", "0", "0">>
HIDDEN_DIR == <<".", "c", "a", "c", "h", "e">>
PLAIN_FILE == <<"R", "E", "A", "D", "M", "E", ".", "m", "d">>

EntryNames ==
    {ID_FULL, ID_FULL_LATER, ID_STAGE_RUN, ID_UNPREFIXED, HIDDEN_DIR,
     PLAIN_FILE}

MaxEntries == 3

MaxDeletes == 1

\* readdir promises no order: the entries come in any arrangement.
EntryOrders ==
    UNION { { o \in [1..n -> EntryNames] :
                \A i, j \in 1..n : i # j => o[i] # o[j] } :
            n \in 0..MaxEntries }

\* The listings an experiment directory may have.
ExperimentListings ==
    {<<STATISTICS_JSON, CONTEXT_FINAL_JSON>>,
     <<RESULTS_JSON, CONTEXT_PITCH_JSON, DESIGNS_DIR>>}

\* What an entry of a given name may be: README.md is a file, .cache a
\* directory the scan never opens, every other name an experiment directory.
EntryStates(name) ==
    IF name = PLAIN_FILE
    THEN {[isDir |-> FALSE, files |-> <<>>, mtime |-> <<"T">>]}
    ELSE IF name = HIDDEN_DIR
    THEN {[isDir |-> TRUE, files |-> <<>>, mtime |-> <<"T">>]}
    ELSE {[isDir |-> TRUE, files |-> l, mtime |-> <<"T">>] :
            l \in ExperimentListings}

AllEntryStates == UNION {EntryStates(n) : n \in EntryNames}

NoRoot == [exists |-> FALSE, order |-> <<>>, entry |-> <<>>, deleted |-> 0]

Roots ==
    {NoRoot}
    \cup UNION { { [exists |-> TRUE, order |-> o, entry |-> e, deleted |-> 0] :
                   e \in {f \in [Range(o) -> AllEntryStates] :
                            \A n \in Range(o) : f[n] \in EntryStates(n)} } :
                 o \in EntryOrders }

\* The directory r with the entry name removed.
Without(r, name) ==
    [exists |-> r.exists,
     order |-> SelectSeq(r.order, LAMBDA n : n # name),
     entry |-> [n \in DOMAIN r.entry \ {name} |-> r.entry[n]],
     deleted |-> r.deleted + 1]

-----------------------------------------------------------------------------
(* The test list request: GET /api/tests (routes/api/tests/+server.ts, first
   handler). The handler waits for the readdir of the test_results directory,
   starts one read per result file, and answers when every read has settled,
   in whatever order they settle. *)

LATEST == <<"l", "a", "t", "e", "s", "t">>

\* Line 11: f.endsWith('.json') && !f.includes('latest')
IsTestFile(name) == EndsWith(name, DOT_JSON) /\ ~StrIncludes(name, LATEST)

\* Line 19: file.replace('.json', ''), the first occurrence removed.
RemoveFirst(str, part) ==
    LET at == {i \in 1..(Len(str) - Len(part) + 1) :
                  SubSeq(str, i, i + Len(part) - 1) = part}
    IN  IF at = {} THEN str
        ELSE LET k == CHOOSE i \in at : \A j \in at : i <= j
             IN  SubSeq(str, 1, k - 1) \o SubSeq(str, k + Len(part), Len(str))

\* Lines 14-32: the outcome of the read of one file. A file that cannot be
\* read or parsed throws, and so does data.stage_name when the document is
\* null; the catch returns null.
TestSummary(name, file) ==
    IF file.kind # "json" \/ file.doc.t \in {"null", "undefined"} THEN Null
    ELSE LET data == file.doc
         IN  Obj([id |-> Str(RemoveFirst(name, DOT_JSON)),
                  filename |-> Str(name),
                  stage_name |-> Get(data, "stage_name"),
                  test_name |-> Get(data, "test_name"),
                  agent_name |-> Get(data, "agent_name"),
                  test_type |-> Get(data, "test_type"),
                  timestamp |-> Or(Get(data, "timestamp"),
                                   Get(data, "timestamp_start")),
                  execution_time_ms |-> Get(data, "execution_time_ms"),
                  success |-> Get(data, "success")])

\* Lines 37-38: a?.timestamp || a?.id || ''
SortKey(a) == Or(Or(OptGet(a, "timestamp"), OptGet(a, "id")), Str(<<>>))

\* The string localeCompare makes of its argument: a string is itself, a
\* non-negative integer is written in decimal digits. (A sort key is a string
\* or a number in the documents of this model.)
RECURSIVE KeyString(_)
KeyString(v) ==
    IF v.t = "string" THEN v.s
    ELSE IF v.n < 10 THEN <<ToString(v.n)>>
    ELSE KeyString(Num(v.n \div 10)) \o <<ToString(v.n % 10)>>

\* Line 39: bTime.localeCompare(aTime). Only a string has the method: with
\* any other bTime the call is a TypeError. The argument aTime is converted
\* to a string.
CompareTests(a, b) ==
    IF SortKey(b).t # "string"
    THEN [threw |-> TRUE, order |-> 0]
    ELSE [threw |-> FALSE,
          order |-> LocaleCompare(SortKey(b).s, KeyString(SortKey(a)))]

\* Line 36, Array.prototype.sort as the engine runs it on an array of fewer
\* than 64 elements. The first run: each element from the place idx on is
\* compared with the one before it, as comparator(later, earlier), while the
\* order stays descending (desc) or stays non-descending. The result is the
\* length of the run, or threw when a call of the comparator throws.
RECURSIVE RunEnd(_, _, _)
RunEnd(arr, idx, desc) ==
    IF idx > Len(arr) THEN [threw |-> FALSE, run |-> idx - 1]
    ELSE LET c == CompareTests(arr[idx], arr[idx - 1])
         IN  IF c.threw THEN [threw |-> TRUE, run |-> idx - 1]
             ELSE IF desc = (c.order >= 0)
                  THEN [threw |-> FALSE, run |-> idx - 1]
                  ELSE RunEnd(arr, idx + 1, desc)

\* The binary search of the insertion: the place of pivot among the sorted
\* elements arr[left + 1 .. right], found by comparator(pivot, element) calls.
RECURSIVE SearchPlace(_, _, _, _)
SearchPlace(arr, pivot, left, right) ==
    IF left >= right THEN [threw |-> FALSE, at |-> left]
    ELSE LET mid == left + ((right - left) \div 2)
             c == CompareTests(pivot, arr[mid + 1])
         IN  IF c.threw THEN [threw |-> TRUE, at |-> left]
             ELSE IF c.order < 0 THEN SearchPlace(arr, pivot, left, mid)
                  ELSE SearchPlace(arr, pivot, mid + 1, right)

\* The elements after the first start ones are inserted one by one into the
\* sorted part before them.
RECURSIVE InsertFrom(_, _)
InsertFrom(arr, start) ==
    IF start >= Len(arr) THEN [threw |-> FALSE, arr |-> arr]
    ELSE LET pivot == arr[start + 1]
             place == SearchPlace(arr, pivot, 0, start)
         IN  IF place.threw THEN [threw |-> TRUE, arr |-> arr]
             ELSE InsertFrom(SubSeq(arr, 1, place.at) \o <<pivot>>
                                \o SubSeq(arr, place.at + 1, start)
                                \o SubSeq(arr, start + 2, Len(arr)),
                             start + 1)

\* Line 36: validResults.sort(comparator). An array of fewer than two
\* elements is left as it is without a call of the comparator; otherwise the
\* first run is found, reversed when it is strictly descending, and the rest
\* is inserted into it. The result is [threw, arr].
SortTests(arr) ==
    IF Len(arr) < 2 THEN [threw |-> FALSE, arr |-> arr]
    ELSE LET first == CompareTests(arr[2], arr[1])
         IN  IF first.threw THEN [threw |-> TRUE, arr |-> arr]
             ELSE LET desc == first.order < 0
                      r == RunEnd(arr, 3, desc)
                      run == IF desc
                             THEN [i \in 1..r.run |-> arr[r.run + 1 - i]]
                             ELSE SubSeq(arr, 1, r.run)
                  IN  IF r.threw THEN [threw |-> TRUE, arr |-> arr]
                      ELSE InsertFrom(run \o SubSeq(arr, r.run + 1, Len(arr)),
                                      r.run)

NoTestsDir == [exists |-> FALSE, listing |-> <<>>, content |-> <<>>]

\* The state of a test list request: pc is "start" (readdir pending),
\* "reading" (reads pending) or "done"; settled records the order in which
\* the reads settled.
TestsStart ==
    [pc |-> "start", files |-> <<>>, results |-> <<>>, settled |-> <<>>,
     response |-> NoListResponse]

\* The place of a read that has not settled in the array Promise.all fills.
Pending == [t |-> "pending"]

\* Line 13: Promise.all puts the outcome of the i-th read at place i.
Settle(results, i, value) ==
    [j \in DOMAIN results |-> IF j = i THEN value ELSE results[j]]

\* Lines 35-46: filter(Boolean), sort, json(validResults); a comparator that
\* throws ends in the outer catch, which answers 500.
TestsRespond(s) ==
    LET validResults == SelectSeq(s.results, Truthy)
        sorted == SortTests(validResults)
    IN  IF sorted.threw
        THEN [s EXCEPT !.pc = "done",
                       !.response = [status |-> 500,
                                     body |-> Obj([error |-> Str(TESTS_FAILED)])]]
        ELSE [s EXCEPT !.pc = "done",
                       !.response = [status |-> 200,
                                     body |-> ToJson(Arr(sorted.arr))]]

\* Lines 10-13 and 43-46: the readdir settles; a directory that is not there
\* is the 500 of the outer catch. With no result file Promise.all has nothing
\* to wait for and the handler answers in the same turn.
TestsReaddirDone(s, d) ==
    IF ~d.exists
    THEN [s EXCEPT !.pc = "done",
                   !.response = [status |-> 500,
                                 body |-> Obj([error |-> Str(TESTS_FAILED)])]]
    ELSE LET jsonFiles == SelectSeq(d.listing, IsTestFile)
             reading == [s EXCEPT !.pc = "reading",
                                  !.files = jsonFiles,
                                  !.results = [i \in DOMAIN jsonFiles |-> Pending]]
         IN  IF jsonFiles = <<>> THEN TestsRespond(reading) ELSE reading

\* Lines 14-42: the read of the i-th file settles; when it is the last one
\* pending, Promise.all settles and the handler answers in the same turn.
TestsReadDone(s, d, i) ==
    LET t == [s EXCEPT !.results =
                  Settle(s.results, i,
                         TestSummary(s.files[i], d.content[s.files[i]])),
                       !.settled = Append(s.settled, i)]
    IN  IF \E j \in DOMAIN t.results : t.results[j] = Pending
        THEN t
        ELSE TestsRespond(t)

\* The test_results directories: at most MaxTestFiles of the names below in
\* any order. A result file is unreadable, unparsable, null, or a document
\* with a timestamp (a string, or a number), with a timestamp_start only, or
\* with neither; the other files hold a document.
MaxTestFiles == 3

TestFileNames ==
    {<<"t", "1", ".", "j", "s", "o", "n">>,
     <<"t", "2", ".", "j", "s", "o", "n">>,
     <<"t", "3", ".", "j", "s", "o", "n">>,
     <<"t", "_", "l", "a", "t", "e", "s", "t", ".", "j", "s", "o", "n">>,
     <<"n", "o", "t", "e", "s", ".", "t", "x", "t">>}

TestFileStates ==
    {Unreadable, Garbage, Json(Null),
     Json(Obj([stage_name |-> Str(<<"i", "d", "e", "a">>),
               timestamp |-> Str(<<"2", "0", "2", "4", "0", "1", "0", "1">>),
               success |-> Bool(TRUE)])),
     Json(Obj([timestamp_start |->
                   Str(<<"2", "0", "2", "4", "0", "1", "0", "2">>),
               success |-> Bool(FALSE)])),
     Json(Obj([stage_name |-> Str(<<"i", "d", "e", "a">>),
               timestamp |-> Num(5),
               success |-> Bool(TRUE)])),
     Json(TestDocPlain)}

TestsDirectories ==
    {NoTestsDir}
    \cup UNION {
           { [exists |-> TRUE, listing |-> l,
              content |-> [x \in Range(l) |->
                              IF IsTestFile(x) THEN c[x]
                              ELSE Json(TestDocPlain)]] :
               c \in [{x \in Range(l) : IsTestFile(x)} -> TestFileStates] } :
           l \in UNION { { m \in [1..n -> TestFileNames] :
                             \A i, j \in 1..n : i # j => m[i] # m[j] } :
                         n \in 0..MaxTestFiles } }

-----------------------------------------------------------------------------
(* Concurrent requests: two requests, each a detail request
   (unnamed/part_008) or a statistics request, served by the same process over
   directories that do not change. A handler runs from one await to the next
   without interruption; between awaits the other request may run. *)

\* Variant of Locals: files and dirStat are kept in one place for all
\* requests, and a request finds there what the first request left.
Locals_shared(ss, k) ==
    [ss[k] EXCEPT !.files = ss[1].files, !.mtime = ss[1].mtime]

\* part_008 lines 60-63: expDir, files and dirStat are constants of the
\* invocation; a request works on its own.
Locals(ss, k) == ss[k]

\* The file a readFile of name in directory d settles with.
FileAt(d, name) ==
    IF d.exists /\ name \in DOMAIN d.content THEN d.content[name] ELSE Missing

\* part_008 line 61: await readdir(expDir); a directory that is not there
\* rejects and the catch answers.
DetailReaddirDone(r, d) ==
    IF ~d.exists
    THEN [r EXCEPT !.pc = "done", !.response = GET_experiment(r.id, d)]
    ELSE [r EXCEPT !.pc = "stat", !.files = d.listing]

\* What the invocation knows of the directory: the listing and the stat it
\* was given, and the files it reads.
DetailView(r, d) ==
    [exists |-> TRUE, listing |-> r.files, mtime |-> r.mtime,
     content |-> [x \in Range(r.files) |-> FileAt(d, x)]]

\* part_008 lines 63-79: await stat(expDir), the summary, and the choice of
\* the branch; with no document to read the summary is the answer. The stat
\* of a directory that is gone rejects and the catch answers.
DetailStatDone(r, d) ==
    LET known == [r EXCEPT !.mtime = d.mtime]
    IN  IF ~d.exists
        THEN [r EXCEPT !.pc = "done", !.response = GET_experiment(r.id, d)]
        ELSE IF SourceOf(r.files) = "none"
        THEN [known EXCEPT
                 !.pc = "done",
                 !.response = GET_experiment(r.id, DetailView(known, d))]
        ELSE [known EXCEPT !.pc = "read"]

\* part_008 lines 80-102: await readFile of the chosen document, and the
\* answer.
DetailReadDone(r, d) ==
    [r EXCEPT !.pc = "done", !.response = GET_experiment(r.id, DetailView(r, d))]

\* statistics/+server.ts lines 10-12: await readFile, and the answer.
ConcStatisticsDone(r, d) ==
    [r EXCEPT !.pc = "done",
              !.response = GET_statistics(r.id, FileAt(d, STATISTICS_JSON))]

\* The requests, and the directories they are served over.
ConcRequests ==
    [op : {"experiment", "statistics"}, id : {ID_FULL, ID_STAGE_RUN},
     pc : {"start"}, files : {<<>>}, mtime : {<<>>},
     response : {NoListResponse}]

ConcListings ==
    {<<>>, <<STATISTICS_JSON>>, <<CONTEXT_FINAL_JSON, STATISTICS_JSON>>,
     <<RESULTS_JSON, CONTEXT_IDEA_JSON>>, <<CONTEXT_PITCH_JSON>>}

ConcDirectories ==
    {d \in Directories : ~d.exists \/ d.listing \in ConcListings}

-----------------------------------------------------------------------------
(* The normalizer run: normalizeContext applied to a document, then to its own
   result. *)

NotRun == [threw |-> FALSE, result |-> Undefined, input |-> Undefined]

NoResponse == [status |-> 0, body |-> Undefined, reads |-> <<>>]

\* The locals of a detail request before its readdir and stat have settled.
NothingSeen == [files |-> <<>>, mtime |-> <<>>]

NoRequest == [op |-> "none"]

NoReply == [status |-> 0, ops |-> <<>>]

\* A page before its onMount has run: experiments = [], testResults = [],
\* loading = true. view is the page ("experiments", "dashboard" or "tests")
\* once it is mounted; pc is "script", then "fetch" (the fetches pending),
\* "json" and "json2" (a body being parsed), "loaded".
NoPage ==
    [view |-> "none", pc |-> "script", loading |-> TRUE,
     experiments |-> Arr(<<>>), testResults |-> Arr(<<>>)]

\* The parts of the state a run of another operation leaves idle.
NormIdle == raw = Undefined /\ norm = NotRun /\ norm2 = NotRun /\ npc = "idle"
GetIdle ==
    /\ id = <<>>
    /\ dir = NoDirectory
    /\ seen = NothingSeen
    /\ resp = NoResponse
    /\ gpc = "idle"
ReqIdle == req = NoRequest /\ disk = "none" /\ reply = NoReply /\ rpc = "idle"
ListIdle == root = NoRoot /\ scan = [ScanStart EXCEPT !.pc = "idle"]
PageIdle == page = NoPage
TestsIdle == tdir = NoTestsDir /\ tscan = [TestsStart EXCEPT !.pc = "idle"]
ConcIdle == store = <<>> /\ slots = <<>>

NormInit ==
    /\ raw \in RawContexts
    /\ norm = NotRun
    /\ norm2 = NotRun
    /\ npc = "start"
    /\ GetIdle
    /\ ReqIdle
    /\ ListIdle
    /\ PageIdle
    /\ TestsIdle
    /\ ConcIdle

Normalize ==
    /\ npc = "start"
    /\ norm' = normalizeContext(raw)
    /\ npc' = "once"
    /\ UNCHANGED <<raw, norm2>>
    /\ UNCHANGED <<getVars, reqVars, listVars, pageVars>>
    /\ UNCHANGED <<testsVars, concVars>>

NormalizeAgain ==
    /\ npc = "once"
    /\ ~norm.threw
    /\ norm2' = normalizeContext(norm.result)
    /\ npc' = "twice"
    /\ UNCHANGED <<raw, norm>>
    /\ UNCHANGED <<getVars, reqVars, listVars, pageVars>>
    /\ UNCHANGED <<testsVars, concVars>>

NormNext == Normalize \/ NormalizeAgain

SpecNorm == NormInit /\ [][NormNext]_vars

-----------------------------------------------------------------------------
(* The detail request: one GET /api/experiments/<id>, await by await
   (readdir, stat, readFile). While the handler waits, the document it is
   about to read, or the whole directory, may be removed. *)

\* The request as the step operators take it.
GetSlot ==
    [op |-> "experiment", id |-> id, pc |-> gpc, files |-> seen.files,
     mtime |-> seen.mtime, response |-> resp]

\* The document the handler is about to read, if any.
Chosen(files) ==
    CASE SourceOf(files) = "final" -> CONTEXT_FINAL_JSON
      [] SourceOf(files) = "results" -> RESULTS_JSON
      [] SourceOf(files) = "stage" -> FirstContext(files).value
      [] OTHER -> <<>>

\* The directory without one of its files; its mtime is that of the removal.
WithoutFile(d, name) ==
    [exists |-> TRUE,
     listing |-> SelectSeq(d.listing, LAMBDA f : f # name),
     content |-> [x \in DOMAIN d.content \ {name} |-> d.content[x]],
     mtime |-> <<"U">>]

GetInit ==
    /\ id \in Ids
    /\ dir \in Directories
    /\ seen = NothingSeen
    /\ resp = NoResponse
    /\ gpc = "start"
    /\ NormIdle
    /\ ReqIdle
    /\ ListIdle
    /\ PageIdle
    /\ TestsIdle
    /\ ConcIdle

\* await readdir(expDir) settles.
GetReaddir ==
    /\ gpc = "start"
    /\ LET r == DetailReaddirDone(GetSlot, dir)
       IN  /\ gpc' = r.pc
           /\ seen' = [files |-> r.files, mtime |-> r.mtime]
           /\ resp' = r.response
    /\ UNCHANGED <<id, dir>>
    /\ UNCHANGED <<normVars, reqVars, listVars, pageVars>>
    /\ UNCHANGED <<testsVars, concVars>>

\* await stat(expDir) settles.
GetStat ==
    /\ gpc = "stat"
    /\ LET r == DetailStatDone(GetSlot, dir)
       IN  /\ gpc' = r.pc
           /\ seen' = [files |-> r.files, mtime |-> r.mtime]
           /\ resp' = r.response
    /\ UNCHANGED <<id, dir>>
    /\ UNCHANGED <<normVars, reqVars, listVars, pageVars>>
    /\ UNCHANGED <<testsVars, concVars>>

\* await readFile of the chosen document settles.
GetRead ==
    /\ gpc = "read"
    /\ LET r == DetailReadDone(GetSlot, dir)
       IN  /\ gpc' = r.pc
           /\ seen' = [files |-> r.files, mtime |-> r.mtime]
           /\ resp' = r.response
    /\ UNCHANGED <<id, dir>>
    /\ UNCHANGED <<normVars, reqVars, listVars, pageVars>>
    /\ UNCHANGED <<testsVars, concVars>>

\* While the handler waits for its stat or its readFile, the document it is
\* about to read is removed. (The removal of any other file changes nothing
\* the handler reads.)
DeleteChosenFile ==
    /\ gpc \in {"stat", "read"}
    /\ dir.exists
    /\ Chosen(seen.files) \in Range(dir.listing)
    /\ dir' = WithoutFile(dir, Chosen(seen.files))
    /\ UNCHANGED <<id, seen, resp, gpc>>
    /\ UNCHANGED <<normVars, reqVars, listVars, pageVars>>
    /\ UNCHANGED <<testsVars, concVars>>

\* While the handler waits for its stat or its readFile, the directory is
\* removed with all it holds.
DeleteExperiment ==
    /\ gpc \in {"stat", "read"}
    /\ dir.exists
    /\ dir' = NoDirectory
    /\ UNCHANGED <<id, seen, resp, gpc>>
    /\ UNCHANGED <<normVars, reqVars, listVars, pageVars>>
    /\ UNCHANGED <<testsVars, concVars>>

GetNext ==
    GetReaddir \/ GetStat \/ GetRead \/ DeleteChosenFile \/ DeleteExperiment

SpecGet == GetInit /\ [][GetNext]_vars

-----------------------------------------------------------------------------
(* The design request: one GET /api/experiments/<id>/designs/<filename>,
   await by await (access, readFile). The image may be removed between the
   two. *)

DesignInit ==
    /\ req \in [op : {"design"}, id : DesignIds, filename : DesignFileNames]
    /\ disk \in DesignFiles
    /\ reply = NoReply
    /\ rpc = "start"
    /\ NormIdle
    /\ GetIdle
    /\ ListIdle
    /\ PageIdle
    /\ TestsIdle
    /\ ConcIdle

\* The checks of the parameters run and await access settles.
GetDesignAccess ==
    /\ rpc = "start"
    /\ req.op = "design"
    /\ LET r == DesignAccessDone(req.id, req.filename, disk)
       IN  rpc' = r.pc /\ reply' = r.reply
    /\ UNCHANGED <<req, disk>>
    /\ UNCHANGED <<normVars, getVars, listVars, pageVars>>
    /\ UNCHANGED <<testsVars, concVars>>

\* await readFile settles.
GetDesignRead ==
    /\ rpc = "read"
    /\ req.op = "design"
    /\ reply' = DesignReadDone(req.id, req.filename, disk, reply.ops)
    /\ rpc' = "done"
    /\ UNCHANGED <<req, disk>>
    /\ UNCHANGED <<normVars, getVars, listVars, pageVars>>
    /\ UNCHANGED <<testsVars, concVars>>

\* The image is removed while the handler waits for its readFile.
DeleteDesign ==
    /\ rpc = "read"
    /\ req.op = "design"
    /\ disk # "missing"
    /\ disk' = "missing"
    /\ UNCHANGED <<req, reply, rpc>>
    /\ UNCHANGED <<normVars, getVars, listVars, pageVars>>
    /\ UNCHANGED <<testsVars, concVars>>

DesignNext == GetDesignAccess \/ GetDesignRead \/ DeleteDesign

SpecDesign == DesignInit /\ [][DesignNext]_vars

-----------------------------------------------------------------------------
(* The file request: one request to the statistics, stage context or test
   result handler for a file that does not change while it is served. *)

FileInit ==
    /\ req \in FileRequests
    /\ disk \in FilesOf(req)
    /\ reply = NoReply
    /\ rpc = "start"
    /\ NormIdle
    /\ GetIdle
    /\ ListIdle
    /\ PageIdle
    /\ TestsIdle
    /\ ConcIdle

GetStatistics ==
    /\ rpc = "start"
    /\ req.op = "statistics"
    /\ reply' = GET_statistics(req.id, disk)
    /\ rpc' = "done"
    /\ UNCHANGED <<req, disk>>
    /\ UNCHANGED <<normVars, getVars, listVars, pageVars>>
    /\ UNCHANGED <<testsVars, concVars>>

GetContext ==
    /\ rpc = "start"
    /\ req.op = "context"
    /\ reply' = GET_context(req.id, req.stage, disk)
    /\ rpc' = "done"
    /\ UNCHANGED <<req, disk>>
    /\ UNCHANGED <<normVars, getVars, listVars, pageVars>>
    /\ UNCHANGED <<testsVars, concVars>>

GetTest ==
    /\ rpc = "start"
    /\ req.op = "test"
    /\ reply' = GET_test(req.id, disk)
    /\ rpc' = "done"
    /\ UNCHANGED <<req, disk>>
    /\ UNCHANGED <<normVars, getVars, listVars, pageVars>>
    /\ UNCHANGED <<testsVars, concVars>>

FileNext == GetStatistics \/ GetContext \/ GetTest

SpecFile == FileInit /\ [][FileNext]_vars

-----------------------------------------------------------------------------
(* The list request: one GET /api/experiments. The handler waits for the
   readdir of the experiments directory, then for a readdir and a stat of
   each experiment directory in turn; directories may be deleted while it
   waits. *)

ListInit ==
    /\ root \in Roots
    /\ scan = ScanStart
    /\ NormIdle
    /\ GetIdle
    /\ ReqIdle
    /\ PageIdle
    /\ TestsIdle
    /\ ConcIdle

ListReaddir ==
    /\ scan.pc = "start"
    /\ scan' = RootRead(scan, root)
    /\ UNCHANGED root
    /\ UNCHANGED <<normVars, getVars, reqVars, pageVars>>
    /\ UNCHANGED <<testsVars, concVars>>

ListEntryReaddir ==
    /\ scan.pc = "readdir"
    /\ scan' = EntryRead(scan, root)
    /\ UNCHANGED root
    /\ UNCHANGED <<normVars, getVars, reqVars, pageVars>>
    /\ UNCHANGED <<testsVars, concVars>>

ListEntryStat ==
    /\ scan.pc = "stat"
    /\ scan' = EntryStat(scan, root)
    /\ UNCHANGED root
    /\ UNCHANGED <<normVars, getVars, reqVars, pageVars>>
    /\ UNCHANGED <<testsVars, concVars>>

\* An experiment directory is removed while the request is being served.
DeleteDirectory ==
    /\ scan.pc \in {"start", "readdir", "stat"}
    /\ root.deleted < MaxDeletes
    /\ \E name \in DOMAIN root.entry :
          /\ root.entry[name].isDir
          /\ root' = Without(root, name)
    /\ UNCHANGED scan
    /\ UNCHANGED <<normVars, getVars, reqVars, pageVars>>
    /\ UNCHANGED <<testsVars, concVars>>

ListNext ==
    ListReaddir \/ ListEntryReaddir \/ ListEntryStat \/ DeleteDirectory

SpecList == ListInit /\ [][ListNext]_vars


-----------------------------------------------------------------------------
(* The test list request: one GET /api/tests over a test_results directory
   that does not change while it is served. *)

TestsInit ==
    /\ tdir \in TestsDirectories
    /\ tscan = TestsStart
    /\ NormIdle
    /\ GetIdle
    /\ ReqIdle
    /\ ListIdle
    /\ PageIdle
    /\ ConcIdle

TestsReaddir ==
    /\ tscan.pc = "start"
    /\ tscan' = TestsReaddirDone(tscan, tdir)
    /\ UNCHANGED tdir
    /\ UNCHANGED <<normVars, getVars, reqVars, listVars, pageVars, concVars>>

\* The reads run concurrently: any read that has not settled may settle
\* next, and the last one to settle brings the answer.
TestsRead ==
    /\ tscan.pc = "reading"
    /\ \E i \in DOMAIN tscan.results :
          /\ tscan.results[i] = Pending
          /\ tscan' = TestsReadDone(tscan, tdir, i)
    /\ UNCHANGED tdir
    /\ UNCHANGED <<normVars, getVars, reqVars, listVars, pageVars, concVars>>

TestsNext == TestsReaddir \/ TestsRead

SpecTests == TestsInit /\ [][TestsNext]_vars

-----------------------------------------------------------------------------
(* Concurrent requests: two requests in flight at once. *)

ConcInit ==
    /\ store \in [{ID_FULL, ID_STAGE_RUN} -> ConcDirectories]
    /\ slots \in [1..2 -> ConcRequests]
    /\ NormIdle
    /\ GetIdle
    /\ ReqIdle
    /\ ListIdle
    /\ PageIdle
    /\ TestsIdle

ConcReaddir(k) ==
    /\ slots[k].op = "experiment"
    /\ slots[k].pc = "start"
    /\ slots' = [slots EXCEPT
                   ![k] = DetailReaddirDone(Locals(slots, k), store[slots[k].id])]
    /\ UNCHANGED store
    /\ UNCHANGED <<normVars, getVars, reqVars, listVars, pageVars, testsVars>>

ConcStat(k) ==
    /\ slots[k].op = "experiment"
    /\ slots[k].pc = "stat"
    /\ slots' = [slots EXCEPT
                   ![k] = DetailStatDone(Locals(slots, k), store[slots[k].id])]
    /\ UNCHANGED store
    /\ UNCHANGED <<normVars, getVars, reqVars, listVars, pageVars, testsVars>>

ConcRead(k) ==
    /\ slots[k].op = "experiment"
    /\ slots[k].pc = "read"
    /\ slots' = [slots EXCEPT
                   ![k] = DetailReadDone(Locals(slots, k), store[slots[k].id])]
    /\ UNCHANGED store
    /\ UNCHANGED <<normVars, getVars, reqVars, listVars, pageVars, testsVars>>

ConcStatistics(k) ==
    /\ slots[k].op = "statistics"
    /\ slots[k].pc = "start"
    /\ slots' = [slots EXCEPT
                   ![k] = ConcStatisticsDone(Locals(slots, k),
                                             store[slots[k].id])]
    /\ UNCHANGED store
    /\ UNCHANGED <<normVars, getVars, reqVars, listVars, pageVars, testsVars>>

ConcNext ==
    \E k \in 1..2 :
        ConcReaddir(k) \/ ConcStat(k) \/ ConcRead(k) \/ ConcStatistics(k)

SpecConc == ConcInit /\ [][ConcNext]_vars

-----------------------------------------------------------------------------
(* The page load: the listing page (unnamed/part_004), the dashboard
   (routes/+page.svelte) or the tests page (unnamed/part_007) is mounted,
   fetches /api/experiments, /api/tests or both, and takes the bodies of the
   answers. The handlers run while the fetches are pending, over an
   experiments directory of at most two entries and a test_results directory
   of at most one file. *)

PageInit ==
    /\ root \in Roots
    /\ Len(root.order) <= 2
    /\ scan = ScanStart
    /\ tdir \in TestsDirectories
    /\ Len(tdir.listing) <= 1
    /\ tscan = TestsStart
    /\ page = NoPage
    /\ NormIdle
    /\ GetIdle
    /\ ReqIdle
    /\ ConcIdle

\* onMount is called and runs to its first await: the fetches are sent.
PageMount ==
    /\ page = NoPage
    /\ \E view \in {"experiments", "dashboard", "tests"} :
          page' = [page EXCEPT !.view = view, !.pc = "fetch"]
    /\ UNCHANGED <<normVars, getVars, reqVars, listVars>>
    /\ UNCHANGED <<testsVars, concVars>>

\* The list handler serves the fetch of /api/experiments.
ExperimentsServed ==
    /\ page.pc = "fetch"
    /\ page.view \in {"experiments", "dashboard"}
    /\ ListNext

\* The test list handler serves the fetch of /api/tests.
TestsServed ==
    /\ page.pc = "fetch"
    /\ page.view \in {"dashboard", "tests"}
    /\ TestsNext

\* A fetch is rejected (the server cannot be reached): the catch runs, then
\* finally sets loading = false. On the dashboard the rejection of either
\* fetch rejects Promise.all.
PageFetchRejected ==
    /\ page.pc = "fetch"
    /\ page' = [page EXCEPT !.pc = "loaded", !.loading = FALSE]
    /\ UNCHANGED <<normVars, getVars, reqVars, listVars>>
    /\ UNCHANGED <<testsVars, concVars>>

\* The fetches of the page are answered, whatever the status of the answers:
\* the page goes on to await the first json().
PageFetched ==
    /\ page.pc = "fetch"
    /\ page.view \in {"experiments", "dashboard"} => scan.pc = "done"
    /\ page.view \in {"dashboard", "tests"} => tscan.pc = "done"
    /\ page' = [page EXCEPT !.pc = "json"]
    /\ UNCHANGED <<normVars, getVars, reqVars, listVars>>
    /\ UNCHANGED <<testsVars, concVars>>

\* Listing page, line 15: experiments = await res.json(), or the catch when
\* the body cannot be taken; then loading = false.
ExperimentsPageParsed ==
    /\ page.view = "experiments"
    /\ page.pc = "json"
    /\ \E parsed \in BOOLEAN :
          page' = [page EXCEPT
                     !.pc = "loaded",
                     !.loading = FALSE,
                     !.experiments = IF parsed THEN scan.response.body
                                     ELSE page.experiments]
    /\ UNCHANGED <<normVars, getVars, reqVars, listVars>>
    /\ UNCHANGED <<testsVars, concVars>>

\* Dashboard, line 18: experiments = await expRes.json(), and on to the
\* json() of the other answer with loading still true; or the catch.
DashboardExperimentsParsed ==
    /\ page.view = "dashboard"
    /\ page.pc = "json"
    /\ \E parsed \in BOOLEAN :
          page' = IF parsed
                  THEN [page EXCEPT !.pc = "json2",
                                    !.experiments = scan.response.body]
                  ELSE [page EXCEPT !.pc = "loaded", !.loading = FALSE]
    /\ UNCHANGED <<normVars, getVars, reqVars, listVars>>
    /\ UNCHANGED <<testsVars, concVars>>

\* Dashboard, line 19: testResults = await testRes.json(), or the catch;
\* then loading = false.
DashboardTestsParsed ==
    /\ page.view = "dashboard"
    /\ page.pc = "json2"
    /\ \E parsed \in BOOLEAN :
          page' = [page EXCEPT
                     !.pc = "loaded",
                     !.loading = FALSE,
                     !.testResults = IF parsed THEN tscan.response.body
                                     ELSE page.testResults]
    /\ UNCHANGED <<normVars, getVars, reqVars, listVars>>
    /\ UNCHANGED <<testsVars, concVars>>

\* Tests page, line 16: testResults = await res.json(), or the catch; then
\* loading = false.
TestsPageParsed ==
    /\ page.view = "tests"
    /\ page.pc = "json"
    /\ \E parsed \in BOOLEAN :
          page' = [page EXCEPT
                     !.pc = "loaded",
                     !.loading = FALSE,
                     !.testResults = IF parsed THEN tscan.response.body
                                     ELSE page.testResults]
    /\ UNCHANGED <<normVars, getVars, reqVars, listVars>>
    /\ UNCHANGED <<testsVars, concVars>>

PageNext ==
    \/ PageMount
    \/ ExperimentsServed
    \/ TestsServed
    \/ PageFetchRejected
    \/ PageFetched
    \/ ExperimentsPageParsed
    \/ DashboardExperimentsParsed
    \/ DashboardTestsParsed
    \/ TestsPageParsed

SpecPage == PageInit /\ [][PageNext]_vars

-----------------------------------------------------------------------------
(* Properties of the normalizer run *)

RawState == OptGet(raw, "state")
RawEntry(s) == Get(Get(RawState, "stage_outputs"), s)
ResultEntry(s) == Get(Get(OptGet(norm.result, "state"), "stage_outputs"), s)
Called == npc # "start"

\* C1. Non-overwrite: when the raw state holds an entry for a stage (a bundle;
\* null and the other falsy values count as missing, as in the guards of lines
\* 21, 32 and 42), the call returns and the returned entry is that bundle,
\* whatever the legacy fields hold.
Thm_C1_NonOverwrite ==
    (Called /\ Truthy(RawState)) =>
        \A s \in StageKeys :
            Truthy(RawEntry(s)) => (~norm.threw /\ ResultEntry(s) = RawEntry(s))

\* C1 witness: all three entries exist next to present legacy indicators with
\* other content, and the call has returned them untouched.
Wit_C1_NonOverwrite ==
    /\ npc = "once"
    /\ \A s \in StageKeys :
          /\ RawEntry(s) = Existing(s)
          /\ Truthy(Get(RawState, Indicator(s)))
          /\ ResultEntry(s) = Existing(s)

\* C2. Presence: after a call that returns on a raw context with a state, the
\* entry of each stage is present exactly when it was present in the raw
\* document or the stage's legacy indicator field was present.
Thm_C2_Presence ==
    (Called /\ Truthy(RawState) /\ ~norm.threw) =>
        \A s \in StageKeys :
            Truthy(ResultEntry(s)) <=>
                (Truthy(RawEntry(s)) \/ Truthy(Get(RawState, Indicator(s))))

\* C2 witness: one stage present from the raw document, one backfilled from its
\* indicator, one absent although other legacy fields of the stage are set.
Wit_C2_Presence ==
    /\ npc = "once"
    /\ RawEntry("pitch") = Existing("pitch")
    /\ ~Truthy(Get(RawState, "pitch"))
    /\ ~Truthy(RawEntry("idea_development"))
    /\ Truthy(Get(RawState, "idea"))
    /\ Truthy(ResultEntry("idea_development"))
    /\ ~Truthy(RawEntry("prototyping"))
    /\ ~Truthy(Get(RawState, "prototype"))
    /\ Truthy(Get(RawState, "architecture"))
    /\ ~Truthy(ResultEntry("prototyping"))

\* C3. Idempotence: whenever normalizeContext returns on an input, applying it
\* to its own result returns too, and returns an equal value.
Thm_C3_Idempotent ==
    (npc = "twice") => (~norm2.threw /\ norm2.result = norm.result)

\* C3 witness: a second pass over a result in which the first pass backfilled
\* an entry.
Wit_C3_Idempotent ==
    /\ npc = "twice"
    /\ ~Truthy(RawEntry("idea_development"))
    /\ Truthy(ResultEntry("idea_development"))
    /\ Truthy(Get(RawState, "pitch"))
    /\ norm2.result = norm.result

\* C4. Purity: the document passed in is, after the call, what it was before.
Cex_C4_InputUntouched == Called => norm.input = raw

\* C5. normalizeContext never raises.
Cex_C5_NeverRaises == ~norm.threw

\* C6. Without a state section, or with a null or undefined context, the
\* input is returned as it is and nothing is raised or written.
Thm_C6_NoStatePassThrough ==
    (Called /\ OptGet(raw, "state").t \in {"undefined", "null"}) =>
        (~norm.threw /\ norm.result = raw /\ norm.input = raw)

\* C6 witness: a document that is an object with a null state has been
\* returned as it is.
Wit_C6_NoStatePassThrough ==
    /\ npc = "once"
    /\ raw.t = "object"
    /\ "state" \in DOMAIN raw.f
    /\ raw.f["state"] = Null
    /\ norm.result = raw

\* C7. Backfill: a raw state with legacy idea I and research_final V, none of
\* research, legal_insights and refinement_feedback, and no stage_outputs
\* yields, as serialized, idea_development = {idea: I, final_validation: V}.
\* (In memory the synthesized object also has the keys research,
\* legal_insights and refinement_feedback, all undefined.)
Thm_C7_Backfill ==
    (/\ Called
     /\ Truthy(Get(RawState, "idea"))
     /\ Truthy(Get(RawState, "research_final"))
     /\ Get(RawState, "research") = Undefined
     /\ Get(RawState, "legal_insights") \in {Undefined, Null}
     /\ Get(RawState, "refinement_feedback") = Undefined
     /\ ~Truthy(Get(RawState, "stage_outputs")))
    => (/\ ~norm.threw
        /\ ToJson(ResultEntry("idea_development")) =
              Obj([idea |-> Get(RawState, "idea"),
                   final_validation |-> Get(RawState, "research_final")]))

\* C7 witness: such a state has been normalized.
Wit_C7_Backfill ==
    /\ npc = "once"
    /\ Get(RawState, "idea") = Payload(<<"I">>)
    /\ Get(RawState, "research_final") = Payload(<<"V">>)
    /\ Get(RawState, "research") = Undefined
    /\ Get(RawState, "legal_insights") = Undefined
    /\ Get(RawState, "refinement_feedback") = Undefined
    /\ Get(RawState, "stage_outputs") = Undefined
    /\ DOMAIN ResultEntry("idea_development").f =
          {"idea", "research", "final_validation", "legal_insights",
           "refinement_feedback"}

\* final_validation as line 25 chooses it: research_final when it is present
\* (truthy), research otherwise.
ExpectedFinalValidation ==
    IF Truthy(Get(RawState, "research_final"))
    THEN Get(RawState, "research_final")
    ELSE Get(RawState, "research")

\* C23 as stated. A synthesized idea_development takes final_validation from
\* research_final when that field is present and from research otherwise, and
\* its idea and legal_insights are the legacy idea and legal_insights,
\* unchanged.
Cex_C23_CarriedUnchanged ==
    (/\ Called
     /\ ~norm.threw
     /\ Truthy(RawState)
     /\ ~Truthy(RawEntry("idea_development"))
     /\ Truthy(Get(RawState, "idea")))
    => LET e == ResultEntry("idea_development")
       IN  /\ Get(e, "final_validation") = ExpectedFinalValidation
           /\ Get(e, "idea") = Get(RawState, "idea")
           /\ Get(e, "legal_insights") = Get(RawState, "legal_insights")

\* C23, amended. A synthesized idea_development takes final_validation from
\* research_final when that field is present (truthy, as in line 25) and
\* from research otherwise; idea is the legacy idea unchanged; legal_insights
\* is the legacy legal_insights unchanged unless that is null, and a null one
\* is turned into undefined (line 26), so that the serialized bundle has no
\* legal_insights at all.
Thm_C23_FinalValidationFallback ==
    (/\ Called
     /\ ~norm.threw
     /\ Truthy(RawState)
     /\ ~Truthy(RawEntry("idea_development"))
     /\ Truthy(Get(RawState, "idea")))
    => LET e == ResultEntry("idea_development")
           legal == Get(RawState, "legal_insights")
       IN  /\ Get(e, "final_validation") = ExpectedFinalValidation
           /\ Get(e, "idea") = Get(RawState, "idea")
           /\ IF legal = Null
              THEN /\ Get(e, "legal_insights") = Undefined
                   /\ "legal_insights" \notin DOMAIN ToJson(e).f
              ELSE Get(e, "legal_insights") = legal

\* C23 witness: research and research_final are both there and the legacy
\* legal_insights is null; the synthesized entry carries research_final and
\* the idea, and its legal_insights is undefined.
Wit_C23_FinalValidationFallback ==
    /\ npc = "once"
    /\ Get(RawState, "research") = Payload(<<"R">>)
    /\ Get(RawState, "research_final") = Payload(<<"V">>)
    /\ Get(RawState, "legal_insights") = Null
    /\ Get(RawState, "stage_outputs") = Undefined
    /\ ResultEntry("idea_development").t = "object"
    /\ Get(ResultEntry("idea_development"), "final_validation")
         = Payload(<<"V">>)
    /\ Get(ResultEntry("idea_development"), "idea") = Payload(<<"I">>)
    /\ "legal_insights" \in DOMAIN ResultEntry("idea_development").f
    /\ Get(ResultEntry("idea_development"), "legal_insights") = Undefined

\* The bundle the claim expects for a synthesized stage, as serialized.
ExpectedBundle(s) ==
    IF s = "prototyping"
    THEN ToJson(Obj([k \in {"architecture", "design", "final_designs",
                            "prototype"} |-> Get(RawState, k)]))
    ELSE ToJson(Obj([marketing_strategies |->
                        Get(RawState, "marketing_strategies"),
                     pitch_deck |-> Get(RawState, "pitch")]))

\* C24. For prototyping and pitch, a missing entry is synthesized exactly
\* when the stage's own indicator (prototype, pitch) is present, whatever the
\* other stages and legacy fields hold, and the synthesized bundle carries
\* the stage's legacy fields, the pitch under pitch_deck.
Thm_C24_PrototypingAndPitch ==
    (Called /\ ~norm.threw /\ Truthy(RawState)) =>
        \A s \in {"prototyping", "pitch"} :
            ~Truthy(RawEntry(s)) =>
                IF Truthy(Get(RawState, Indicator(s)))
                THEN ToJson(ResultEntry(s)) = ExpectedBundle(s)
                ELSE ~Truthy(ResultEntry(s))

\* C24 witness: architecture and design without prototype leave prototyping
\* out, while the pitch next to them is synthesized under pitch_deck.
Wit_C24_PrototypingAndPitch ==
    /\ npc = "once"
    /\ Get(RawState, "prototype") = Undefined
    /\ Get(RawState, "architecture") = Payload(<<"A">>)
    /\ Get(RawState, "design") = Payload(<<"D">>)
    /\ Get(RawState, "idea") = Undefined
    /\ Get(RawState, "stage_outputs") = Undefined
    /\ ResultEntry("prototyping") = Undefined
    /\ Get(ResultEntry("pitch"), "pitch_deck") = Payload(<<"P", "D">>)
    /\ Get(ResultEntry("pitch"), "marketing_strategies")
         = Arr(<<Payload(<<"M">>)>>)

-----------------------------------------------------------------------------
(* Properties of the detail request *)

Done == gpc = "done"

\* The directory as the handler's readdir listed it. A document named below
\* is taken as it is on disk when the request is done, which is as the
\* handler's readFile found it: Missing when it was removed in between.
Listed(name) == name \in Range(seen.files)

\* The directory is there when the request is done: the handler's readdir
\* and stat found it.
StillThere == dir.exists

\* The context_*.json files of the directory.
StageContextFiles ==
    {f \in Range(seen.files) :
        StartsWith(f, CONTEXT_PREFIX) /\ EndsWith(f, DOT_JSON)}

\* The characters of the file names, in code unit order.
CodeUnitOrder ==
    <<".", "0", "1", "2", "3", "4", "5", "6", "7", "8", "9", "A", "B", "C",
      "D", "E", "F", "G", "H", "I", "J", "K", "L", "M", "N", "O", "P", "Q",
      "R", "S", "T", "U", "V", "W", "X", "Y", "Z", "_", "a", "b", "c", "d",
      "e", "f", "g", "h", "i", "j", "k", "l", "m", "n", "o", "p", "q", "r",
      "s", "t", "u", "v", "w", "x", "y", "z">>

CodeUnit(c) == CHOOSE i \in DOMAIN CodeUnitOrder : CodeUnitOrder[i] = c

\* a <= b in lexicographic order of code units.
LexLeq(a, b) ==
    \E k \in 0..Len(a) :
        /\ k <= Len(b)
        /\ SubSeq(a, 1, k) = SubSeq(b, 1, k)
        /\ \/ k = Len(a)
           \/ k < Len(b) /\ CodeUnit(a[k + 1]) < CodeUnit(b[k + 1])

LexMin(names) == CHOOSE a \in names : \A b \in names : LexLeq(a, b)

\* C8. Precedence: in a directory that holds both context_final.json and
\* results.json (and is not removed while it is served) the only file read
\* is context_final.json; the answer carries
\* its normalized content as `context` and no `results`, or is the error
\* response when that document cannot be read, parsed or normalized.
Thm_C8_FinalOverResults ==
    (Done /\ StillThere /\ Listed(CONTEXT_FINAL_JSON) /\ Listed(RESULTS_JSON))
    =>
        LET file == FileAt(dir, CONTEXT_FINAL_JSON)
            n == normalizeContext(file.doc)
        IN  /\ resp.reads = <<CONTEXT_FINAL_JSON>>
            /\ "results" \notin DOMAIN resp.body.f
            /\ IF file.kind = "json" /\ ~n.threw
               THEN /\ resp.status = 200
                    /\ Get(resp.body, "context") = ToJson(n.result)
               ELSE /\ resp.status = 500
                    /\ "context" \notin DOMAIN resp.body.f

\* C8 witness: results.json with an embedded context is listed before
\* context_final.json, a stage context is there too, and the answer carries
\* the backfilled final context.
Wit_C8_FinalOverResults ==
    /\ Done
    /\ Listed(CONTEXT_PITCH_JSON)
    /\ Len(seen.files) >= 3
    /\ seen.files[1] = RESULTS_JSON
    /\ seen.files[3] = CONTEXT_FINAL_JSON
    /\ FileAt(dir, RESULTS_JSON) = Json(Bundle(DocEmbedded))
    /\ FileAt(dir, CONTEXT_FINAL_JSON) = Json(DocLegacy)
    /\ resp.status = 200
    /\ Truthy(Get(Get(Get(Get(resp.body, "context"), "state"),
                      "stage_outputs"), "idea_development"))

\* C9. Without context_final.json, a results.json that has no full_context
\* does not end the resolution: a stage context that exists is read and
\* answered as `context`.
Cex_C9_BundleWithoutContextFallsThrough ==
    (/\ Done
     /\ StillThere
     /\ ~Listed(CONTEXT_FINAL_JSON)
     /\ Listed(RESULTS_JSON)
     /\ FileAt(dir, RESULTS_JSON) = Json(Bundle(Undefined))
     /\ StageContextFiles # {})
    => (/\ \E i \in DOMAIN resp.reads : resp.reads[i] \in StageContextFiles
        /\ resp.status = 200 => "context" \in DOMAIN resp.body.f)

\* C10. With neither context_final.json nor results.json, the document read
\* is the lexicographically smallest context_*.json, whatever the order of
\* the listing.
Cex_C10_LexicallyFirstStageContext ==
    (/\ Done
     /\ StillThere
     /\ ~Listed(CONTEXT_FINAL_JSON)
     /\ ~Listed(RESULTS_JSON)
     /\ StageContextFiles # {})
    => resp.reads = <<LexMin(StageContextFiles)>>

\* C11. A directory that exists and holds no context_final.json, no
\* results.json and no context_*.json is answered with status 200 and the
\* summary alone: no `context`, no `results`, no file read.
Thm_C11_SummaryOnly ==
    (/\ Done
     /\ StillThere
     /\ ~Listed(CONTEXT_FINAL_JSON)
     /\ ~Listed(RESULTS_JSON)
     /\ StageContextFiles = {})
    => (/\ resp.status = 200
        /\ resp.body = ToJson(Obj(ExperimentSummary(id, DetailView(GetSlot, dir))))
        /\ "context" \notin DOMAIN resp.body.f
        /\ "results" \notin DOMAIN resp.body.f
        /\ "error" \notin DOMAIN resp.body.f
        /\ resp.reads = <<>>)

\* C11 witness: a directory holding only statistics.json and the designs
\* folder is answered with its summary.
Wit_C11_SummaryOnly ==
    /\ Done
    /\ StillThere
    /\ Range(seen.files) = {STATISTICS_JSON, DESIGNS_DIR}
    /\ resp.status = 200
    /\ Get(resp.body, "hasStatistics") = Bool(TRUE)
    /\ "context" \notin DOMAIN resp.body.f
    /\ "results" \notin DOMAIN resp.body.f

\* The context a detail page takes from the answer it fetched: the overview,
\* idea, prototype and pitch pages read data.context || data.results?.full_context.
PageContext(data) ==
    Or(OptGet(data, "context"), OptGet(OptGet(data, "results"), "full_context"))

\* The context the statistics page takes from the answer: experimentData?.context.
StatsPageContext(data) == OptGet(data, "context")

\* The stage tabs a page shows for a context: hasIdea, hasPrototype, hasPitch.
StageTabs(context) ==
    LET stageOutputs == OptGet(OptGet(context, "state"), "stage_outputs")
    IN  [idea |-> Truthy(OptGet(stageOutputs, "idea_development")),
         prototype |-> Truthy(OptGet(stageOutputs, "prototyping")),
         pitch |-> Truthy(OptGet(stageOutputs, "pitch"))]

\* The kind the naming convention gives an id: stage_run for an id that
\* begins with stage_run_, full for every other id.
KindOf(expId) ==
    IF StartsWith(expId, STAGE_RUN_PREFIX) THEN TYPE_STAGE_RUN ELSE TYPE_FULL

\* C16. The kind reported for an id is stage_run when the id begins with
\* stage_run_ and full otherwise, ids under neither convention included.
Cex_C16_KindFromPrefix ==
    (Done /\ resp.status = 200) => Get(resp.body, "type") = Str(KindOf(id))

\* The names an answer reports as contextFiles.
ReportedContextFiles ==
    LET arr == Get(resp.body, "contextFiles").a
    IN  {arr[i].s : i \in DOMAIN arr}

\* C17. The reported contextFiles are exactly the context_*.json files of the
\* directory; statistics.json and results.json are not among them.
Cex_C17_ContextFilesOnly ==
    (Done /\ resp.status = 200) => ReportedContextFiles = StageContextFiles

\* C22. hasCompleteContext is true exactly when context_final.json is in the
\* directory, in the detail answer and in the entry the list builds for the
\* same directory; a directory whose only context artifact is a usable
\* context_final.json is answered with that document, normalized, as
\* `context`.
Thm_C22_CompleteContext ==
    (Done /\ StillThere) =>
        LET file == FileAt(dir, CONTEXT_FINAL_JSON)
            n == normalizeContext(file.doc)
        IN  /\ resp.status = 200 =>
                 Get(resp.body, "hasCompleteContext")
                   = Bool(Listed(CONTEXT_FINAL_JSON))
            /\ Get(ListSummary(ListEntry(id, seen.files, seen.mtime)),
                   "hasCompleteContext") = Bool(Listed(CONTEXT_FINAL_JSON))
            /\ (/\ StageContextFiles = {CONTEXT_FINAL_JSON}
                /\ ~Listed(RESULTS_JSON)
                /\ file.kind = "json"
                /\ ~n.threw)
               => (/\ resp.status = 200
                   /\ resp.reads = <<CONTEXT_FINAL_JSON>>
                   /\ Get(resp.body, "context") = ToJson(n.result)
                   /\ Get(resp.body, "hasCompleteContext") = Bool(TRUE))

\* C22 witness: context_final.json alone (next to statistics.json) is
\* answered as the context with the flag set, and a directory with a stage
\* context only has the flag cleared.
Wit_C22_CompleteContext ==
    /\ Done
    /\ Range(seen.files) = {STATISTICS_JSON, CONTEXT_FINAL_JSON}
    /\ FileAt(dir, CONTEXT_FINAL_JSON) = Json(DocLegacy)
    /\ resp.status = 200
    /\ Get(resp.body, "hasCompleteContext") = Bool(TRUE)
    /\ Truthy(Get(resp.body, "context"))

\* The document the precedence selects: context_final.json, else
\* results.json, else the first context_*.json of the listing.
Selected ==
    IF Listed(CONTEXT_FINAL_JSON) THEN CONTEXT_FINAL_JSON
    ELSE IF Listed(RESULTS_JSON) THEN RESULTS_JSON
    ELSE seen.files[CHOOSE i \in DOMAIN seen.files :
                        /\ seen.files[i] \in StageContextFiles
                        /\ \A j \in 1..(i - 1) :
                              seen.files[j] \notin StageContextFiles]

\* C25. When the selected document cannot be read or parsed the answer is
\* the one error response: status 500, the error alone, and no other file
\* read.
Thm_C25_NoFallback ==
    (/\ Done
     /\ StillThere
     /\ Listed(RESULTS_JSON) \/ StageContextFiles # {}
     /\ FileAt(dir, Selected).kind # "json")
    => (/\ resp.status = 500
        /\ DOMAIN resp.body.f = {"error"}
        /\ resp.reads = <<Selected>>)

\* C25 witness: an unparsable context_final.json next to a usable
\* results.json and a usable stage context.
Wit_C25_NoFallback ==
    /\ Done
    /\ Range(seen.files)
         = {CONTEXT_FINAL_JSON, RESULTS_JSON, CONTEXT_PITCH_JSON}
    /\ FileAt(dir, CONTEXT_FINAL_JSON) = Garbage
    /\ FileAt(dir, RESULTS_JSON).kind = "json"
    /\ FileAt(dir, CONTEXT_PITCH_JSON).kind = "json"
    /\ resp.status = 500
    /\ resp.reads = <<CONTEXT_FINAL_JSON>>

\* C27. The kind the list reports for a directory equals the kind the detail
\* answer reports for the same id.
Cex_C27_ListKindIsDetailKind ==
    (Done /\ resp.status = 200)
    => Get(resp.body, "type")
         = Get(ListSummary(ListEntry(id, seen.files, seen.mtime)), "type")

\* The normalized context an answer carries inside its results bundle.
ServedInResults == Get(Get(resp.body, "results"), "full_context")

\* C26. For an answer that carries results and no context, every detail page
\* (overview, idea, prototype, pitch, statistics) derives the normalized
\* context of the bundle and the stage tabs of that context.
Cex_C26_ResultsServedAsContext ==
    (/\ Done
     /\ resp.status = 200
     /\ "results" \in DOMAIN resp.body.f
     /\ "context" \notin DOMAIN resp.body.f)
    => /\ PageContext(resp.body) = ServedInResults
       /\ StageTabs(PageContext(resp.body)) = StageTabs(ServedInResults)
       /\ StatsPageContext(resp.body) = ServedInResults
       /\ StageTabs(StatsPageContext(resp.body)) = StageTabs(ServedInResults)

-----------------------------------------------------------------------------
(* Properties of the design request *)

DesignDone == rpc = "done" /\ req.op = "design"

\* A parameter with a parent-directory segment: one of its pieces between
\* slashes is "..".
HasParentSegment(param) ==
    \E i \in DOMAIN Split(param, "/") : Split(param, "/")[i] = DOTDOT

\* C12. A design request whose id or filename has a parent-directory segment
\* is answered 400 and makes no filesystem call, whatever is on disk.
Thm_C12_TraversalRejected ==
    (/\ DesignDone
     /\ HasParentSegment(req.id) \/ HasParentSegment(req.filename))
    => (reply.status = 400 /\ reply.ops = <<>>)

\* C12 witness: ../../secret asked of an existing experiment while a
\* readable file sits at the resolved path.
Wit_C12_TraversalRejected ==
    /\ DesignDone
    /\ req.id = ID_FULL
    /\ req.filename = NAME_TRAVERSAL
    /\ disk = IMAGE_BYTES
    /\ reply.status = 400
    /\ reply.ops = <<>>

\* The extension of a file name: the lower-cased text after its last dot,
\* and none (the empty string) for a name without a dot.
FileExtension(name) ==
    LET dots == {i \in DOMAIN name : name[i] = "."}
    IN  IF dots = {} THEN <<>>
        ELSE LET last == CHOOSE i \in dots : \A j \in dots : j <= i
             IN  ToLowerCase(SubSeq(name, last + 1, Len(name)))

\* The image type the claim assigns to an extension.
ImageTypeOf(ext) ==
    CASE ext \in {EXT_JPG, EXT_JPEG} -> IMAGE_JPEG
      [] ext = EXT_GIF -> IMAGE_GIF
      [] ext = EXT_WEBP -> IMAGE_WEBP
      [] OTHER -> IMAGE_PNG

\* C13. A successful design response has the content type of the file's
\* extension taken case-insensitively: image/jpeg for jpg and jpeg, image/gif
\* for gif, image/webp for webp, image/png for any other extension and for a
\* name without one.
Cex_C13_ContentTypeFromExtension ==
    (DesignDone /\ reply.status = 200) =>
        reply.headers.ContentType = ImageTypeOf(FileExtension(req.filename))

-----------------------------------------------------------------------------
(* Properties of the file request *)

FileDone == rpc = "done" /\ req.op \in {"statistics", "context", "test"}

\* The status and body a file request gets when its file is in state file.
AnswerTo(r, file) ==
    LET a == CASE r.op = "statistics" -> GET_statistics(r.id, file)
               [] r.op = "context" -> GET_context(r.id, r.stage, file)
               [] OTHER -> GET_test(r.id, file)
    IN  <<a.status, a.body>>

\* C19. A missing file is reported as NotFound and an unreadable or
\* malformed one as ReadError, and the two are never the same response:
\* the statistics and test result requests answer a file that cannot be read
\* or parsed differently from a file that is not there, the first with 404
\* for the missing file.
Cex_C19_NotFoundVersusReadError ==
    (FileDone /\ req.op \in {"statistics", "test"})
    => /\ disk = Missing => reply.status = 404
       /\ disk \in {Unreadable, Garbage} =>
            <<reply.status, reply.body>> # AnswerTo(req, Missing)

\* C20. The answer to a test result request whose file parses has the
\* requested id as its id and every other field of the document unchanged.
Cex_C20_IdFromFileName ==
    (FileDone /\ req.op = "test" /\ disk.kind = "json")
    => /\ reply.status = 200
       /\ Get(reply.body, "id") = Str(req.id)
       /\ \A k \in DOMAIN Spread(disk.doc) \ {"id"} :
            Get(reply.body, k) = ToJson(Spread(disk.doc)[k])

\* C28. A statistics, stage context or test result request whose id or stage
\* has a parent-directory segment is rejected with an error status and makes
\* no filesystem call.
Cex_C28_PathConfinement ==
    (/\ FileDone
     /\ \/ HasParentSegment(req.id)
        \/ req.op = "context" /\ HasParentSegment(req.stage))
    => (reply.status >= 400 /\ reply.ops = <<>>)

-----------------------------------------------------------------------------
(* Properties of the list request *)

ListDone == scan.pc = "done"

ListAnswered == ListDone /\ scan.response.status = 200

\* The ids of the answer, in the order of the answer.
ReturnedIds ==
    LET arr == scan.response.body.a
    IN  [i \in DOMAIN arr |-> arr[i].f.id.s]

\* The names the scan took for experiment directories.
ScannedNames ==
    {scan.entries[i].name :
        i \in {j \in DOMAIN scan.entries : IsExperimentEntry(scan.entries[j])}}

Digits == {"0", "1", "2", "3", "4", "5", "6", "7", "8", "9"}

\* The last fifteen characters of an id, and whether they are a date-time
\* suffix YYYYMMDD_HHMMSS.
Suffix(expId) == SubSeq(expId, Len(expId) - 14, Len(expId))

HasTimestamp(expId) ==
    /\ Len(expId) >= 15
    /\ \A i \in 1..15 :
          IF i = 9 THEN Suffix(expId)[i] = "_" ELSE Suffix(expId)[i] \in Digits

\* C14. Of two returned ids that end in a date-time suffix, under either
\* naming convention, the one with the later suffix comes first.
Cex_C14_NewestFirst ==
    ListAnswered =>
        \A i, j \in DOMAIN ReturnedIds :
            (/\ i < j
             /\ HasTimestamp(ReturnedIds[i])
             /\ HasTimestamp(ReturnedIds[j]))
            => LexLeq(Suffix(ReturnedIds[j]), Suffix(ReturnedIds[i]))

\* C15. The answer is in descending lexical order of id: each id is at least
\* the id that follows it, compared character by character.
Cex_C15_DescendingLexical ==
    ListAnswered =>
        \A i \in 1..(Len(ReturnedIds) - 1) :
            LexLeq(ReturnedIds[i + 1], ReturnedIds[i])

\* C15, amended. The answer holds the scanned directories in descending
\* order of localeCompare, whatever order readdir listed them in: each id
\* compares greater than or equal to the id that follows it.
Thm_C15_DescendingCollation ==
    ListAnswered =>
        /\ {ReturnedIds[i] : i \in DOMAIN ReturnedIds} = ScannedNames
        /\ Len(ReturnedIds) = Cardinality(ScannedNames)
        /\ \A i \in 1..(Len(ReturnedIds) - 1) :
              LocaleCompare(ReturnedIds[i], ReturnedIds[i + 1]) >= 0

\* C15 witness: three directories listed in ascending order are answered in
\* descending order.
Wit_C15_DescendingCollation ==
    /\ ListAnswered
    /\ [i \in DOMAIN scan.entries |-> scan.entries[i].name]
         = <<ID_FULL, ID_STAGE_RUN, ID_UNPREFIXED>>
    /\ ReturnedIds = <<ID_UNPREFIXED, ID_STAGE_RUN, ID_FULL>>

\* C18. A readdir or stat of an experiment directory that is no longer there
\* ends the request with the one error response: status 500, the error
\* body, and none of the entries scanned before.
Thm_C18_ScanAborts ==
    [][(/\ scan.pc \in {"readdir", "stat"}
        /\ scan' # scan
        /\ scan.entries[scan.i].name \notin DOMAIN root.entry)
       => (/\ scan'.pc = "done"
           /\ scan'.response.status = 500
           /\ scan'.response.body = Obj([error |-> Str(LIST_FAILED)]))]_vars

\* C18 witness: one directory was scanned, the next was deleted before its
\* stat, and the answer is the error response.
Wit_C18_ScanAborts ==
    /\ ListDone
    /\ root.deleted = 1
    /\ Len(scan.experiments) = 1
    /\ scan.files # <<>>
    /\ scan.entries[scan.i].name \notin DOMAIN root.entry
    /\ scan.response = ListFailed

-----------------------------------------------------------------------------
(* Properties of the page load *)

\* C29. Once a page that fetched /api/experiments has finished loading, its
\* experiments is a list, whatever the request answered.
Cex_C29_ExperimentsIsAList ==
    (page.view \in {"experiments", "dashboard"} /\ ~page.loading)
    => page.experiments.t = "array"

-----------------------------------------------------------------------------
(* Properties of the test list request *)

TestsDone == tscan.pc = "done"

Summaries == tscan.response.body.a

\* The result files of the directory: the .json files whose name does not
\* contain "latest".
ResultFiles == {n \in Range(tdir.listing) : IsTestFile(n)}

\* The places of the answer that hold the summary of a file.
SummariesOf(name) ==
    {i \in DOMAIN Summaries : Get(Summaries[i], "filename") = Str(name)}

PlaceInListing(name) == CHOOSE i \in DOMAIN tdir.listing : tdir.listing[i] = name

\* The answer is in the one order the directory determines: descending by
\* timestamp (or id), files with equal keys in the order of the listing.
OrderedByDirectory ==
    \A i, j \in DOMAIN Summaries :
        i < j =>
            LET c == LocaleCompare(KeyString(SortKey(Summaries[i])),
                                   KeyString(SortKey(Summaries[j])))
            IN  \/ c > 0
                \/ /\ c = 0
                   /\ PlaceInListing(Get(Summaries[i], "filename").s)
                        < PlaceInListing(Get(Summaries[j], "filename").s)

\* A result file that is read and parsed into a document. (A file holding
\* the JSON value null is counted with the files that cannot be parsed: the
\* handler leaves it out as well.)
Summarizable(name) ==
    tdir.content[name].kind = "json" /\ tdir.content[name].doc # Null

\* C30. A result file that cannot be read or parsed is left out, every other
\* result file has exactly one summary in the answer, and the answer does
\* not depend on the order in which the reads settle: it is the list the
\* directory determines.
Cex_C30_SkipAndContinue ==
    (TestsDone /\ tdir.exists)
    => /\ tscan.response.status = 200
       /\ \A n \in ResultFiles :
            Cardinality(SummariesOf(n)) = IF Summarizable(n) THEN 1 ELSE 0
       /\ OrderedByDirectory

-----------------------------------------------------------------------------
(* Properties of concurrent requests *)

\* The answer a request gets when it is served alone.
Alone(r) ==
    IF r.op = "experiment" THEN GET_experiment(r.id, store[r.id])
    ELSE GET_statistics(r.id, FileAt(store[r.id], STATISTICS_JSON))

\* C21. Over directories that do not change, a request that runs interleaved
\* with another request, for the same id or for another, is answered as it
\* is answered when it runs alone.
Thm_C21_RequestIsolation ==
    \A k \in DOMAIN slots :
        slots[k].pc = "done" => slots[k].response = Alone(slots[k])

\* C21 witness: a statistics request was answered for an id while a detail
\* request for the same id was between its stat and its read.
Wit_C21_RequestIsolation ==
    /\ slots # <<>>
    /\ slots[1].op = "experiment"
    /\ slots[1].pc = "read"
    /\ slots[2].op = "statistics"
    /\ slots[2].id = slots[1].id
    /\ slots[2].pc = "done"
    /\ slots[2].response.status = 200

====
